---- MODULE Spec2Model ----
(***************************************************************************)
(* Client side of the TLS 1.3 handshake of library/ssl_tls13_client.c.     *)
(*                                                                         *)
(* The SSL context, its handshake parameters and the negotiated session    *)
(* are one record, ssl, whose fields carry the names of the C fields.      *)
(* Each handler of the file is an operator from the context (and the       *)
(* message it reads) to the pair [s |-> context after, ret |-> return      *)
(* code]; the step function dispatches on ssl.state exactly as             *)
(* mbedtls_ssl_tls13_handshake_client_step does.                           *)
(*                                                                         *)
(* Handshake messages are abstracted to the fields the handlers read; a    *)
(* structural defect of a message (truncation, bad length) is a field of   *)
(* the abstract message.  Calls into other files of the library (record    *)
(* layer, key schedule, PSA crypto) are inputs: the step is given the name *)
(* of the one external call that fails, if any.  A step aborts on the      *)
(* first failing call, so at most one failure is observable in a step.     *)
(***************************************************************************)
EXTENDS Integers, Sequences, FiniteSets, TLC

VARIABLES
    conf,      \* ssl->conf and the build configuration: read only
    ssl,       \* ssl, ssl->handshake and the session (ssl->session_negotiate,
               \* which is ssl->session once the handshake is over)
    ret,       \* return value of the last call of the step function
    in_msg,    \* what the last step read from the peer (digest), or NoMsg
    trail,     \* history: the states the step function has moved to
    hrr,       \* history: the HelloRetryRequest that was accepted, or NoMsg
    clock      \* what mbedtls_time() returned to the last step that read it

vars == <<conf, ssl, ret, in_msg, trail, hrr, clock>>

(***************************************************************************)
(* Bounds of the model.                                                    *)
(***************************************************************************)
\* Largest number of extensions, besides supported_versions, in a
\* ServerHello or HelloRetryRequest that the peer sends.
MaxExts == 2
\* The number of NewSessionTicket messages the server sends after the
\* handshake.
MaxTickets == 2

(***************************************************************************)
(* Program constants.                                                      *)
(***************************************************************************)
\* Protocol versions, as on the wire (0x0303, 0x0304).
MBEDTLS_SSL_VERSION_TLS1_2 == 771
MBEDTLS_SSL_VERSION_TLS1_3 == 772

\* Return codes are named: "0" is success, as in C, the errors carry the
\* name of their MBEDTLS_ERR_SSL_ code, and the non-negative results of the
\* coordination functions carry the name of their macro.
OK == "0"

\* Key exchange modes are bits of a mask; a mask is the set of its bits.
KEX_PSK == {"PSK"}
KEX_EPHEMERAL == {"EPHEMERAL"}
KEX_PSK_EPHEMERAL == {"PSK_EPHEMERAL"}
KEX_PSK_ALL == {"PSK", "PSK_EPHEMERAL"}
KEX_EPHEMERAL_ALL == {"EPHEMERAL", "PSK_EPHEMERAL"}
KEX_ALL == {"PSK", "EPHEMERAL", "PSK_EPHEMERAL"}

\* Named groups (TLS ids): secp256r1 = 23, x25519 = 29, ffdhe2048 = 256.
EcdheGroups == {23, 24, 25, 29, 30}
DheGroups == {256, 257, 258, 259, 260}
\* The curves the crypto provider of this build implements.
ProviderCurves == {23, 29}

\* TLS 1.3 ciphersuites the client offers; 47 (0x002F) is a TLS 1.2 suite.
OfferedCiphersuites == {4865, 4866}

NoMsg == [type |-> "none"]

(***************************************************************************)
(* Helpers of other files of the library, by their contract.               *)
(***************************************************************************)
R(s, r) == [s |-> s, ret |-> r]

\* MBEDTLS_SSL_PROC_CHK and "if (ret != 0) return ret": the rest of the
\* function, K, runs on the context the call left, unless the call failed.
Chk(r, K(_)) ==
    CHOOSE y \in {IF x.ret # OK THEN x ELSE K(x.s) : x \in {r}} : TRUE

\* MBEDTLS_SSL_PEND_FATAL_ALERT: the alert is queued for sending.
PendFatalAlert(s, alert) == [s EXCEPT !.alert = alert]

\* ssl->out_msg as mbedtls_ssl_start_handshake_msg and
\* mbedtls_ssl_finish_handshake_msg(ssl, buf_len, msg_len) leave it: the
\* type of the handshake message, the length of its body, and whether it
\* was finished, that is handed to the record layer.
OutMsg(type, msg_len, finished) ==
    [type |-> type, msg_len |-> msg_len, finished |-> finished]

\* Trace of the calls into the key schedule, the transforms and the crypto.
Call(s, name) == [s EXCEPT !.calls = Append(@, name)]

mbedtls_ssl_handshake_set_state(s, st) == [s EXCEPT !.state = st]

mbedtls_ssl_tls13_named_group_is_ecdhe(g) == g \in EcdheGroups

mbedtls_ssl_tls13_named_group_is_dhe(g) == g \in DheGroups

\* mbedtls_ssl_get_psa_curve_info_from_tls_id(g) == PSA_SUCCESS
CurveSupported(g) == g \in ProviderCurves

mbedtls_ssl_conf_tls13_check_kex_modes(c, mask) == (c.tls13_kex_modes \cap mask) # {}

mbedtls_ssl_conf_tls13_some_ephemeral_enabled(c) ==
    mbedtls_ssl_conf_tls13_check_kex_modes(c, KEX_EPHEMERAL_ALL)

mbedtls_ssl_conf_tls13_some_psk_enabled(c) ==
    mbedtls_ssl_conf_tls13_check_kex_modes(c, KEX_PSK_ALL)

mbedtls_ssl_conf_tls13_psk_enabled(c) ==
    mbedtls_ssl_conf_tls13_check_kex_modes(c, KEX_PSK)

mbedtls_ssl_conf_tls13_psk_ephemeral_enabled(c) ==
    mbedtls_ssl_conf_tls13_check_kex_modes(c, KEX_PSK_EPHEMERAL)

\* The negotiated key exchange uses a PSK (alone or with an ephemeral key).
mbedtls_ssl_tls13_key_exchange_mode_with_psk(s) == (s.key_exchange_mode \cap KEX_PSK_ALL) # {}

mbedtls_ssl_conf_has_static_psk(c) == c.has_static_psk

mbedtls_ssl_tls13_cipher_suite_is_offered(cs) == cs \in OfferedCiphersuites

\* mbedtls_ssl_validate_ciphersuite for TLS 1.3: a known TLS 1.3 suite.
CiphersuiteValid(cs) == cs \in {4865, 4866, 4867}

\* Extension allow-masks of the messages the client receives.
ALLOWED_EXTS_OF_SH == {"KEY_SHARE", "PRE_SHARED_KEY", "SUPPORTED_VERSIONS"}
ALLOWED_EXTS_OF_HRR == {"KEY_SHARE", "COOKIE", "SUPPORTED_VERSIONS"}
ALLOWED_EXTS_OF_EE == {"ALPN", "EARLY_DATA", "SERVERNAME", "SUPPORTED_GROUPS"}
ALLOWED_EXTS_OF_CR == {"SIG_ALG", "CERT_AUTH", "STATUS_REQUEST"}

\* mbedtls_ssl_tls13_check_received_extension: an extension outside the
\* allow-mask of the message is refused with illegal_parameter; otherwise its
\* bit is added to received_extensions.
mbedtls_ssl_tls13_check_received_extension(s, ext_type, allowed) ==
    IF ext_type \notin allowed
    THEN R(PendFatalAlert(s, "ILLEGAL_PARAMETER"), "ILLEGAL_PARAMETER")
    ELSE R([s EXCEPT !.received_extensions = @ \cup {ext_type}], OK)

(***************************************************************************)
(* Writing the ClientHello extensions.                                     *)
(***************************************************************************)
\* One extension on the wire: its type and the value the reader looks at.
Ext(type, val) == [type |-> type, val |-> val]

WriteExt(s, type, val) ==
    [s EXCEPT !.client_hello = Append(@, Ext(type, val)),
              !.sent_extensions = @ \cup {type}]

ssl_tls13_write_supported_versions_ext(s) ==
    R(WriteExt(s, "SUPPORTED_VERSIONS",
               IF s.min_tls_version <= MBEDTLS_SSL_VERSION_TLS1_2
               THEN <<MBEDTLS_SSL_VERSION_TLS1_3, MBEDTLS_SSL_VERSION_TLS1_2>>
               ELSE <<MBEDTLS_SSL_VERSION_TLS1_3>>), OK)

ssl_tls13_reset_key_share(s, fail) ==
    LET group_id == s.offered_group_id IN
    IF group_id = 0 THEN R(s, "INTERNAL_ERROR")
    ELSE IF mbedtls_ssl_tls13_named_group_is_ecdhe(group_id)
    THEN IF fail = "psa_destroy_key"
         THEN R(s, "PSA_DESTROY_KEY_FAILED")
         ELSE R(Call([s EXCEPT !.ecdh_psa_privkey = 0], "psa_destroy_key"), OK)
    ELSE R(s, "INTERNAL_ERROR")

\* The first entry of the list that the provider implements and that is an
\* ECDHE group; 0 when there is none (the C function then fails).
RECURSIVE FirstEcdheGroup(_)
FirstEcdheGroup(group_list) ==
    IF group_list = <<>> THEN 0
    ELSE IF CurveSupported(Head(group_list))
            /\ mbedtls_ssl_tls13_named_group_is_ecdhe(Head(group_list))
         THEN Head(group_list)
         ELSE FirstEcdheGroup(Tail(group_list))

ssl_tls13_get_default_group_id(c) ==
    LET g == FirstEcdheGroup(c.group_list) IN
    IF g = 0 THEN [group_id |-> 0, ret |-> "FEATURE_UNAVAILABLE"]
    ELSE [group_id |-> g, ret |-> OK]

\* A writer that offers the default group whatever a HelloRetryRequest
\* selected: C27 does not hold of it.
WriteKeyShareExtOfDefaultGroup(s, c, fail) ==
    LET dflt == ssl_tls13_get_default_group_id(c)
        group_id == dflt.group_id
    IN
    IF dflt.ret # OK THEN R(s, dflt.ret)
    ELSE IF mbedtls_ssl_tls13_named_group_is_ecdhe(group_id)
    THEN IF fail = "generate_ecdh_key"
         THEN R(s, "PSA_GENERATE_KEY_FAILED")
         ELSE R(WriteExt(Call([s EXCEPT !.ecdh_psa_privkey = group_id,
                                        !.offered_group_id = group_id],
                              "generate_ecdh_key"),
                         "KEY_SHARE", group_id), OK)
    ELSE R(s, "INTERNAL_ERROR")

\* Lines 260-358.
ssl_tls13_write_key_share_ext(s, c, fail) ==
    LET hrr_group == s.offered_group_id
        use_default == ~mbedtls_ssl_tls13_named_group_is_ecdhe(hrr_group)
                       /\ ~mbedtls_ssl_tls13_named_group_is_dhe(hrr_group)
        dflt == ssl_tls13_get_default_group_id(c)
        group_id == IF use_default THEN dflt.group_id ELSE hrr_group
    IN
    IF use_default /\ dflt.ret # OK THEN R(s, dflt.ret)
    ELSE IF mbedtls_ssl_tls13_named_group_is_ecdhe(group_id)
    THEN IF fail = "generate_ecdh_key"
         THEN R(s, "PSA_GENERATE_KEY_FAILED")
         ELSE R(WriteExt(Call([s EXCEPT !.ecdh_psa_privkey = group_id,
                                        !.offered_group_id = group_id],
                              "generate_ecdh_key"),
                         "KEY_SHARE", group_id), OK)
    ELSE R(s, "INTERNAL_ERROR")

\* A writer that leaves the cookie out: C15 does not hold of it.
WriteCookieExtSkipped(s) == R(s, OK)

\* handshake->cookie is [ptr |-> "NULL"] or a buffer on the heap with its
\* bytes; cookie_len bytes of it are copied into the extension.
ssl_tls13_write_cookie_ext(s) ==
    IF s.cookie.ptr = "NULL" THEN R(s, OK)
    ELSE R(WriteExt(s, "COOKIE", SubSeq(s.cookie.bytes, 1, s.cookie_len)), OK)

ssl_tls13_write_psk_key_exchange_modes_ext(s, c) ==
    IF ~mbedtls_ssl_conf_tls13_some_psk_enabled(c) THEN R(s, OK)
    ELSE R(WriteExt(s, "PSK_KEY_EXCHANGE_MODES",
                    (IF mbedtls_ssl_conf_tls13_psk_ephemeral_enabled(c)
                     THEN <<"PSK_MODE_ECDHE">> ELSE <<>>)
                    \o (IF mbedtls_ssl_conf_tls13_psk_enabled(c)
                        THEN <<"PSK_MODE_PURE">> ELSE <<>>)), OK)

\* mbedtls_ssl_session_get_ticket_flags(session, mask)
TicketFlags(s, mask) == s.ticket_flags \cap mask

\* A test of the ticket that leaves its flags out: C26 does not hold of
\* it.
HasConfiguredTicketOfAnyFlags(s, c) ==
    /\ s.resume
    /\ s.ticket # "NULL"

\* Lines 675-683.
ssl_tls13_has_configured_ticket(s, c) ==
    /\ s.resume
    /\ s.ticket # "NULL"
    /\ mbedtls_ssl_conf_tls13_check_kex_modes(c, TicketFlags(s, KEX_PSK_ALL))

\* A test of the ticket that leaves the ciphersuite of the session out:
\* C19 does not hold of it.
EarlyDataHasTicketOfAnySuite(s) ==
    /\ s.resume
    /\ s.session_tls_version = MBEDTLS_SSL_VERSION_TLS1_3
    /\ "ALLOW_EARLY_DATA" \in s.ticket_flags

ssl_tls13_early_data_has_valid_ticket(s) ==
    /\ s.resume
    /\ s.session_tls_version = MBEDTLS_SSL_VERSION_TLS1_3
    /\ "ALLOW_EARLY_DATA" \in s.ticket_flags
    /\ mbedtls_ssl_tls13_cipher_suite_is_offered(s.ciphersuite)

ssl_tls13_get_configured_psk_count(s, c) ==
    (IF ssl_tls13_has_configured_ticket(s, c) THEN 1 ELSE 0)
    + (IF mbedtls_ssl_conf_has_static_psk(c) THEN 1 ELSE 0)

mbedtls_ssl_tls13_write_client_hello_exts(s, c, fail) ==
    Chk(ssl_tls13_write_supported_versions_ext(s), LAMBDA s1 :
    Chk(ssl_tls13_write_cookie_ext(s1), LAMBDA s2 :
    Chk(IF mbedtls_ssl_conf_tls13_some_ephemeral_enabled(c)
        THEN ssl_tls13_write_key_share_ext(s2, c, fail)
        ELSE R(s2, OK), LAMBDA s3 :
    ssl_tls13_write_psk_key_exchange_modes_ext(
        IF /\ mbedtls_ssl_conf_tls13_some_psk_enabled(c)
           /\ ssl_tls13_early_data_has_valid_ticket(s3)
           /\ c.early_data_enabled
        THEN [WriteExt(s3, "EARLY_DATA", 0) EXCEPT !.early_data_status = "REJECTED"]
        ELSE [s3 EXCEPT !.early_data_status = "NOT_SENT"], c))))

(***************************************************************************)
(* ServerHello and HelloRetryRequest.                                      *)
(*                                                                         *)
(* A message is [type, hdr, rnd, legacy_session_id_echo, cipher_suite,     *)
(* exts]:                                                                  *)
(*   hdr   "ok", or the one structural defect of the fixed part;           *)
(*   rnd   what the 32 bytes of Random are: "random", the                  *)
(*         HelloRetryRequest magic, or random bytes ending in the          *)
(*         downgrade magic DOWNGRD followed by 0x00 or 0x01;               *)
(*   legacy_session_id_echo  [len, bytes], the length byte and the bytes;  *)
(*   exts  the extensions in wire order, each with the value read.         *)
(***************************************************************************)
ssl_tls13_is_supported_versions_ext_present(m) ==
    \E i \in 1..Len(m.exts) : m.exts[i].type = "SUPPORTED_VERSIONS"

\* A test of the downgrade marker that knows only the value for TLS 1.2:
\* C3 does not hold of it.
IsDowngradeFromTls12Only(m) ==
    m.rnd = "downgrade_01"

\* The last eight bytes of Random are the seven bytes DOWNGRD and 0 or 1.
ssl_tls13_is_downgrade_negotiation(m) ==
    m.rnd \in {"downgrade_00", "downgrade_01"}

ssl_server_hello_is_hrr(m) ==
    IF m.rnd = "hrr_magic" THEN "SSL_SERVER_HELLO_HRR" ELSE "SSL_SERVER_HELLO"

\* A TLS 1.2 negotiation that does not keep the ServerHello for the TLS 1.2
\* client: C10 does not hold of it.
NegotiateTls12DroppingMessage(s, c, fail) ==
    IF mbedtls_ssl_conf_tls13_some_ephemeral_enabled(c)
    THEN Chk(ssl_tls13_reset_key_share(
                 [s EXCEPT !.tls_version = MBEDTLS_SSL_VERSION_TLS1_2], fail),
             LAMBDA s1 : R(s1, "SSL_SERVER_HELLO_TLS1_2"))
    ELSE R([s EXCEPT !.tls_version = MBEDTLS_SSL_VERSION_TLS1_2],
           "SSL_SERVER_HELLO_TLS1_2")

\* Lines 1434-1446: the peer negotiates TLS 1.2 and the client accepts it.
NegotiateTls12(s, c, fail) ==
    IF mbedtls_ssl_conf_tls13_some_ephemeral_enabled(c)
    THEN Chk(ssl_tls13_reset_key_share(
                 [s EXCEPT !.keep_current_message = 1,
                           !.tls_version = MBEDTLS_SSL_VERSION_TLS1_2], fail),
             LAMBDA s1 : R(s1, "SSL_SERVER_HELLO_TLS1_2"))
    ELSE R([s EXCEPT !.keep_current_message = 1,
                     !.tls_version = MBEDTLS_SSL_VERSION_TLS1_2],
           "SSL_SERVER_HELLO_TLS1_2")

\* A classifier that does not look at hello_retry_request_count: C1 does
\* not hold of it.
PreprocessHrrUncounted(s, c) ==
    IF ~mbedtls_ssl_conf_tls13_some_ephemeral_enabled(c)
    THEN R(PendFatalAlert(s, "ILLEGAL_PARAMETER"), "ILLEGAL_PARAMETER")
    ELSE R([s EXCEPT !.hello_retry_request_count = @ + 1], "SSL_SERVER_HELLO_HRR")

\* A classifier that looks at the modes of the configuration before
\* hello_retry_request_count: C28 does not hold of it.
PreprocessHrrModesFirst(s, c) ==
    IF ~mbedtls_ssl_conf_tls13_some_ephemeral_enabled(c)
    THEN R(PendFatalAlert(s, "ILLEGAL_PARAMETER"), "ILLEGAL_PARAMETER")
    ELSE IF s.hello_retry_request_count > 0
    THEN R(PendFatalAlert(s, "UNEXPECTED_MESSAGE"), "UNEXPECTED_MESSAGE")
    ELSE R([s EXCEPT !.hello_retry_request_count = @ + 1], "SSL_SERVER_HELLO_HRR")

\* Lines 1461-1491: what the classifier does with a HelloRetryRequest.
PreprocessHrr(s, c) ==
    IF s.hello_retry_request_count > 0
    THEN R(PendFatalAlert(s, "UNEXPECTED_MESSAGE"), "UNEXPECTED_MESSAGE")
    ELSE IF ~mbedtls_ssl_conf_tls13_some_ephemeral_enabled(c)
    THEN R(PendFatalAlert(s, "ILLEGAL_PARAMETER"), "ILLEGAL_PARAMETER")
    ELSE R([s EXCEPT !.hello_retry_request_count = @ + 1], "SSL_SERVER_HELLO_HRR")

ssl_tls13_preprocess_server_hello(s, c, m, fail) ==
    IF m.hdr = "truncated"
    THEN R(PendFatalAlert(s, "DECODE_ERROR"), "DECODE_ERROR")
    ELSE IF ~ssl_tls13_is_supported_versions_ext_present(m)
    THEN IF \/ s.min_tls_version > MBEDTLS_SSL_VERSION_TLS1_2
            \/ ssl_tls13_is_downgrade_negotiation(m)
         THEN R(PendFatalAlert(s, "ILLEGAL_PARAMETER"), "ILLEGAL_PARAMETER")
         ELSE NegotiateTls12(s, c, fail)
    ELSE IF ssl_server_hello_is_hrr(m) = "SSL_SERVER_HELLO_HRR"
    THEN PreprocessHrr([s EXCEPT !.session_tls_version = s.tls_version,
                                 !.received_extensions = {}], c)
    ELSE R([s EXCEPT !.session_tls_version = s.tls_version,
                     !.received_extensions = {}], "SSL_SERVER_HELLO")

ssl_tls13_parse_supported_versions_ext(s, version) ==
    IF version # MBEDTLS_SSL_VERSION_TLS1_3
    THEN R(PendFatalAlert(s, "ILLEGAL_PARAMETER"), "ILLEGAL_PARAMETER")
    ELSE R(s, OK)

\* cookie is the content of the extension; calloc may return NULL, for a
\* cookie of no bytes as for any other.
ssl_tls13_parse_cookie_ext(s, cookie, fail) ==
    IF fail = "calloc"
    THEN R([s EXCEPT !.cookie = [ptr |-> "NULL"], !.cookie_len = 0],
           "ALLOC_FAILED")
    ELSE R([s EXCEPT !.cookie = [ptr |-> "heap", bytes |-> cookie],
                     !.cookie_len = Len(cookie)], OK)

\* Lines 400-410: the selected group is an entry of the list that the
\* provider implements.
HrrGroupFound(c, selected_group) ==
    \E i \in 1..Len(c.group_list) :
        CurveSupported(c.group_list[i]) /\ c.group_list[i] = selected_group

\* A parser that takes the group the client offered already: C29 does not
\* hold of it.
ParseHrrKeyShareExtOfOfferedGroup(s, c, selected_group) ==
    IF ~HrrGroupFound(c, selected_group)
    THEN R(PendFatalAlert(s, "ILLEGAL_PARAMETER"), "ILLEGAL_PARAMETER")
    ELSE R([s EXCEPT !.offered_group_id = selected_group], OK)

\* Lines 370-437.
ssl_tls13_parse_hrr_key_share_ext(s, c, selected_group) ==
    IF ~HrrGroupFound(c, selected_group) \/ selected_group = s.offered_group_id
    THEN R(PendFatalAlert(s, "ILLEGAL_PARAMETER"), "ILLEGAL_PARAMETER")
    ELSE R([s EXCEPT !.offered_group_id = selected_group], OK)

\* A parser that takes the share of any group: C13 does not hold of it.
ParseKeyShareExtOfAnyGroup(s, group, fail) ==
    IF mbedtls_ssl_tls13_named_group_is_ecdhe(group)
    THEN IF ~CurveSupported(group) THEN R(s, "INTERNAL_ERROR")
         ELSE IF fail = "read_public_ecdhe_share"
         THEN R(s, "ECDH_READ_FAILED")
         ELSE R(Call(s, "read_public_ecdhe_share"), OK)
    ELSE R(s, "INTERNAL_ERROR")

ssl_tls13_parse_key_share_ext(s, group, fail) ==
    IF s.offered_group_id # group
    THEN R(PendFatalAlert(s, "HANDSHAKE_FAILURE"), "HANDSHAKE_FAILURE")
    ELSE IF mbedtls_ssl_tls13_named_group_is_ecdhe(group)
    THEN IF ~CurveSupported(group) THEN R(s, "INTERNAL_ERROR")
         ELSE IF fail = "read_public_ecdhe_share"
         THEN R(s, "ECDH_READ_FAILED")
         ELSE R(Call(s, "read_public_ecdhe_share"), OK)
    ELSE R(s, "INTERNAL_ERROR")

\* A parser that does not compare selected_identity with the number of
\* PSKs: C14 does not hold of it.
ParseServerPreSharedKeyExtUnbounded(s, c, selected_identity) ==
    IF selected_identity = 0 /\ ssl_tls13_has_configured_ticket(s, c)
    THEN R([s EXCEPT !.hs_psk = "ticket"], OK)
    ELSE IF mbedtls_ssl_conf_has_static_psk(c)
    THEN R([s EXCEPT !.hs_psk = "static"], OK)
    ELSE R(s, "INTERNAL_ERROR")

ssl_tls13_parse_server_pre_shared_key_ext(s, c, selected_identity) ==
    IF selected_identity >= ssl_tls13_get_configured_psk_count(s, c)
    THEN R(PendFatalAlert(s, "ILLEGAL_PARAMETER"), "ILLEGAL_PARAMETER")
    ELSE IF selected_identity = 0 /\ ssl_tls13_has_configured_ticket(s, c)
    THEN R([s EXCEPT !.hs_psk = "ticket"], OK)
    ELSE IF mbedtls_ssl_conf_has_static_psk(c)
    THEN R([s EXCEPT !.hs_psk = "static"], OK)
    ELSE R(s, "INTERNAL_ERROR")

\* Lines 1722-1782: the switch on the type of one extension.
ParseServerHelloExt(s, c, e, is_hrr, fail) ==
    CASE e.type = "COOKIE" -> ssl_tls13_parse_cookie_ext(s, e.val, fail)
      [] e.type = "SUPPORTED_VERSIONS" ->
             ssl_tls13_parse_supported_versions_ext(s, e.val)
      [] e.type = "PRE_SHARED_KEY" ->
             ssl_tls13_parse_server_pre_shared_key_ext(s, c, e.val)
      [] e.type = "KEY_SHARE" ->
             IF ~mbedtls_ssl_conf_tls13_some_ephemeral_enabled(c)
             THEN R(PendFatalAlert(s, "UNSUPPORTED_EXT"), "UNSUPPORTED_EXTENSION")
             ELSE IF is_hrr
             THEN ssl_tls13_parse_hrr_key_share_ext(s, c, e.val)
             ELSE ssl_tls13_parse_key_share_ext(s, e.val, fail)
      [] OTHER -> R(s, "INTERNAL_ERROR")

\* Lines 1703-1785: the loop over the extensions.
RECURSIVE ParseServerHelloExts(_, _, _, _, _)
ParseServerHelloExts(s, c, exts, is_hrr, fail) ==
    IF exts = <<>> THEN R(s, OK)
    ELSE
    Chk(mbedtls_ssl_tls13_check_received_extension(
            s, Head(exts).type,
            IF is_hrr THEN ALLOWED_EXTS_OF_HRR ELSE ALLOWED_EXTS_OF_SH),
        LAMBDA s1 :
    Chk(ParseServerHelloExt(s1, c, Head(exts), is_hrr, fail), LAMBDA s2 :
    ParseServerHelloExts(s2, c, Tail(exts), is_hrr, fail)))

\* memcmp(a, b, n) over the first n bytes of two buffers that hold them.
memcmp(a, b, n) == IF \A i \in 1..n : a[i] = b[i] THEN 0 ELSE 1

\* A test of the echo that compares the lengths only: C11 does not hold of
\* it.
SessionIdEchoLengthOnly(s, echo) ==
    IF Len(echo.bytes) < echo.len
    THEN R(PendFatalAlert(s, "DECODE_ERROR"), "DECODE_ERROR")
    ELSE IF Len(s.id) # echo.len
    THEN R(PendFatalAlert(s, "ILLEGAL_PARAMETER"), "ILLEGAL_PARAMETER")
    ELSE R(s, OK)

\* The echo is [len, bytes]: the length byte and the bytes that follow it
\* in the buffer, fewer than len when the message ends short.
ssl_tls13_check_server_hello_session_id_echo(s, echo) ==
    IF Len(echo.bytes) < echo.len
    THEN R(PendFatalAlert(s, "DECODE_ERROR"), "DECODE_ERROR")
    ELSE IF Len(s.id) # echo.len \/ memcmp(s.id, echo.bytes, echo.len) # 0
    THEN R(PendFatalAlert(s, "ILLEGAL_PARAMETER"), "ILLEGAL_PARAMETER")
    ELSE R(s, OK)

\* Lines 1612-1615 and the cleanup label: whatever the check returned, its
\* failure is reported as illegal_parameter.
SessionIdEchoChecked(r) ==
    IF r.ret # OK
    THEN R(PendFatalAlert(r.s, "ILLEGAL_PARAMETER"), "ILLEGAL_PARAMETER")
    ELSE r

\* A test of the ciphersuite that forgets the HelloRetryRequest: C12 does
\* not hold of it.
CiphersuiteValidAndOffered(s, cipher_suite, is_hrr) ==
    /\ CiphersuiteValid(cipher_suite)
    /\ mbedtls_ssl_tls13_cipher_suite_is_offered(cipher_suite)

\* Lines 1628-1647: the ciphersuite is valid, offered and, after a
\* HelloRetryRequest, the one the HelloRetryRequest chose.
CiphersuiteAccepted(s, cipher_suite, is_hrr) ==
    /\ CiphersuiteValid(cipher_suite)
    /\ mbedtls_ssl_tls13_cipher_suite_is_offered(cipher_suite)
    /\ ~(~is_hrr /\ s.hello_retry_request_count > 0
         /\ cipher_suite # s.ciphersuite)

ssl_tls13_parse_server_hello(s, c, m, is_hrr, fail) ==
    IF m.hdr = "bad_version"
    THEN R(PendFatalAlert(s, "PROTOCOL_VERSION"), "BAD_PROTOCOL_VERSION")
    ELSE IF SessionIdEchoChecked(
                ssl_tls13_check_server_hello_session_id_echo(
                    s, m.legacy_session_id_echo)).ret # OK
    THEN SessionIdEchoChecked(
             ssl_tls13_check_server_hello_session_id_echo(
                 s, m.legacy_session_id_echo))
    ELSE IF ~CiphersuiteAccepted(s, m.cipher_suite, is_hrr)
    THEN R(PendFatalAlert(s, "ILLEGAL_PARAMETER"), "ILLEGAL_PARAMETER")
    ELSE IF m.hdr = "bad_compression"
    THEN R(PendFatalAlert([s EXCEPT !.ciphersuite_info = m.cipher_suite,
                                    !.ciphersuite = m.cipher_suite],
                          "ILLEGAL_PARAMETER"), "ILLEGAL_PARAMETER")
    ELSE IF m.exts = <<>>
    THEN R([s EXCEPT !.ciphersuite_info = m.cipher_suite,
                     !.ciphersuite = m.cipher_suite,
                     !.received_extensions = {}], "ERROR_CORRUPTION_DETECTED")
    ELSE ParseServerHelloExts([s EXCEPT !.ciphersuite_info = m.cipher_suite,
                                        !.ciphersuite = m.cipher_suite,
                                        !.received_extensions = {}],
                              c, m.exts, is_hrr, fail)

\* An inference in which key_share alone decides: C4 does not hold of it.
InferKeyExchangeModeKeyShareFirst(received_extensions) ==
    IF "KEY_SHARE" \in received_extensions THEN KEX_EPHEMERAL
    ELSE IF "PRE_SHARED_KEY" \in received_extensions THEN KEX_PSK
    ELSE {}

\* Lines 1833-1855: the key exchange mode the extensions of the ServerHello
\* stand for; the empty mask when neither extension was received.
InferKeyExchangeMode(received_extensions) ==
    LET both == received_extensions \cap {"PRE_SHARED_KEY", "KEY_SHARE"} IN
    IF both = {"PRE_SHARED_KEY"} THEN KEX_PSK
    ELSE IF both = {"KEY_SHARE"} THEN KEX_EPHEMERAL
    ELSE IF both = {"PRE_SHARED_KEY", "KEY_SHARE"} THEN KEX_PSK_EPHEMERAL
    ELSE {}

\* The inbound transform left as it is: C6 does not hold of it.
KeepInboundTransform(s) == s

\* Lines 1889-1891: mbedtls_ssl_set_inbound_transform(transform_handshake).
InstallInboundHandshakeTransform(s) ==
    Call([s EXCEPT !.transform_in = "handshake"], "set_inbound_transform")

\* Lines 1874-1891: the key schedule up to the handshake keys.
StartKeySchedule(s, fail) ==
    IF fail = "key_schedule_stage_early"
    THEN R(s, "KEY_SCHEDULE_STAGE_EARLY_FAILED")
    ELSE IF fail = "compute_handshake_transform"
    THEN R(Call(s, "key_schedule_stage_early"),
           "COMPUTE_HANDSHAKE_TRANSFORM_FAILED")
    ELSE R(InstallInboundHandshakeTransform(
               Call(Call(s, "key_schedule_stage_early"),
                    "compute_handshake_transform")), OK)

\* The cleanup label of lines 1893-1898: any failure pends handshake_failure.
PostprocessServerHelloCleanup(r) ==
    IF r.ret # OK THEN R(PendFatalAlert(r.s, "HANDSHAKE_FAILURE"), r.ret) ELSE r

\* A postprocessing that does not ask whether the configuration enables
\* the mode: C5 does not hold of it.
PostprocessServerHelloAnyMode(s, c, fail) ==
    PostprocessServerHelloCleanup(
        IF InferKeyExchangeMode(s.received_extensions) = {}
        THEN R(s, "HANDSHAKE_FAILURE")
        ELSE StartKeySchedule(
                 [s EXCEPT !.key_exchange_mode =
                               InferKeyExchangeMode(s.received_extensions)],
                 fail))

ssl_tls13_postprocess_server_hello(s, c, fail) ==
    PostprocessServerHelloCleanup(
        IF InferKeyExchangeMode(s.received_extensions) = {}
        THEN R(s, "HANDSHAKE_FAILURE")
        ELSE IF ~mbedtls_ssl_conf_tls13_check_kex_modes(
                     c, InferKeyExchangeMode(s.received_extensions))
        THEN R([s EXCEPT !.key_exchange_mode =
                             InferKeyExchangeMode(s.received_extensions)],
               "HANDSHAKE_FAILURE")
        ELSE StartKeySchedule(
                 [s EXCEPT !.key_exchange_mode =
                               InferKeyExchangeMode(s.received_extensions)],
                 fail))

\* A HelloRetryRequest after which the key of the first ClientHello is
\* kept: C32 does not hold of it.
PostprocessHrrKeepingKey(s, fail) ==
    R(Call(s, "session_reset_msg_layer"), OK)

\* Lines 1904-1922.
ssl_tls13_postprocess_hrr(s, fail) ==
    ssl_tls13_reset_key_share(Call(s, "session_reset_msg_layer"), fail)

\* Lines 1964-1979: after the message is parsed and added to the transcript.
FinishServerHello(s, c, is_hrr, fail) ==
    IF is_hrr
    THEN Chk(ssl_tls13_postprocess_hrr(s, fail), LAMBDA s1 :
             R(mbedtls_ssl_handshake_set_state(
                   s1, IF c.MBEDTLS_SSL_TLS1_3_COMPATIBILITY_MODE
                       THEN "CLIENT_CCS_BEFORE_2ND_CLIENT_HELLO"
                       ELSE "CLIENT_HELLO"), OK))
    ELSE Chk(ssl_tls13_postprocess_server_hello(s, c, fail), LAMBDA s1 :
             R(mbedtls_ssl_handshake_set_state(s1, "ENCRYPTED_EXTENSIONS"), OK))

\* mbedtls_ssl_tls13_fetch_handshake_msg: reads the next record, which
\* consumes a message that was kept; it fails, with an unexpected_message
\* alert, when the record is not the expected handshake message.
mbedtls_ssl_tls13_fetch_handshake_msg(s, fail) ==
    IF fail = "fetch_handshake_msg"
    THEN R(PendFatalAlert(s, "UNEXPECTED_MESSAGE"), "UNEXPECTED_MESSAGE")
    ELSE R([s EXCEPT !.keep_current_message = 0], OK)

\* Lines 1943-1979: what follows the classification of the message.
AfterPreprocess(pre, c, m, fail) ==
    IF pre.ret \notin {"SSL_SERVER_HELLO", "SSL_SERVER_HELLO_HRR",
                       "SSL_SERVER_HELLO_TLS1_2"}
    THEN pre
    ELSE IF pre.ret = "SSL_SERVER_HELLO_TLS1_2" THEN R(pre.s, OK)
    ELSE
    Chk(ssl_tls13_parse_server_hello(pre.s, c, m,
                                     pre.ret = "SSL_SERVER_HELLO_HRR", fail),
        LAMBDA s1 :
    IF pre.ret = "SSL_SERVER_HELLO_HRR" /\ fail = "reset_transcript_for_hrr"
    THEN R(s1, "RESET_TRANSCRIPT_FAILED")
    ELSE FinishServerHello(s1, c, pre.ret = "SSL_SERVER_HELLO_HRR", fail))

ssl_tls13_process_server_hello(s, c, m, fail) ==
    Chk(mbedtls_ssl_tls13_fetch_handshake_msg(s, fail), LAMBDA s1 :
    AfterPreprocess(ssl_tls13_preprocess_server_hello(s1, c, m, fail),
                    c, m, fail))

(***************************************************************************)
(* The pre_shared_key extension of the ClientHello.                        *)
(***************************************************************************)
\* Arithmetic on uint32_t.  A uint32_t is the pair of its 16-bit halves,
\* [hi, lo], standing for hi * 2^16 + lo.
U32(hi, lo) == [hi |-> hi % (2 ^ 16), lo |-> lo % (2 ^ 16)]

\* The cast (uint32_t) x of a signed integer.
ToU32(x) == U32(x \div (2 ^ 16), x)

U32Add(a, b) == U32(a.hi + b.hi + ((a.lo + b.lo) \div (2 ^ 16)), a.lo + b.lo)

U32Mul(a, k) == U32(a.hi * k + ((a.lo * k) \div (2 ^ 16)), a.lo * k)

\* a - 1 for a > 0.
U32Dec(a) == IF a.lo > 0 THEN U32(a.hi, a.lo - 1) ELSE U32(a.hi - 1, 2 ^ 16 - 1)

\* PSA_HASH_LENGTH of the hash of a ciphersuite: SHA-384 for 0x1302.
ssl_tls13_get_ciphersuite_hash_len(cs) == IF cs = 4866 THEN 48 ELSE 32

\* The age with the second taken off before the cast to uint32_t, so
\* that an age below 1 counts as one of 1 second: C23 does not hold of it.
ObfuscatedTicketAgeOfSignedAge(now, ticket_received, ticket_age_add) ==
    LET age == now - ticket_received
        age1 == ToU32((IF age > 1 THEN age ELSE 1) - 1)
    IN U32Add(U32Mul(age1, 1000), ticket_age_add)

\* Lines 932-954.
ObfuscatedTicketAge(now, ticket_received, ticket_age_add) ==
    LET age == ToU32(now - ticket_received)
        age1 == IF age # ToU32(0) THEN U32Dec(age) ELSE age
    IN U32Add(U32Mul(age1, 1000), ticket_age_add)

PskIdentity(identity, age) == [identity |-> identity, obfuscated_ticket_age |-> age]

\* The identity of the ticket with room for a binder of SHA-256 whatever
\* the hash of the ticket is: C24 does not hold of it.
WriteTicketIdentityOfSha256(s, now, fail) ==
    IF fail = "set_hs_psk" THEN R(s, "SET_HS_PSK_FAILED")
    ELSE R([s EXCEPT !.psk_identities =
                         Append(@, PskIdentity(s.ticket,
                                    ObfuscatedTicketAge(now, s.ticket_received,
                                                        s.ticket_age_add))),
                     !.binders_len = @ + 1 + 32,
                     !.hs_psk = "ticket",
                     !.ciphersuite_info = s.ciphersuite,
                     !.key_exchange_mode = KEX_PSK_ALL], OK)

\* Lines 929-994: the identity of the ticket, the room for its binder
\* (l_binders_len), and the PSK of the ticket installed for the early data.
WriteTicketIdentity(s, now, fail) ==
    IF fail = "set_hs_psk" THEN R(s, "SET_HS_PSK_FAILED")
    ELSE R([s EXCEPT !.psk_identities =
                         Append(@, PskIdentity(s.ticket,
                                    ObfuscatedTicketAge(now, s.ticket_received,
                                                        s.ticket_age_add))),
                     !.binders_len =
                         @ + 1 + ssl_tls13_get_ciphersuite_hash_len(s.ciphersuite),
                     !.hs_psk = "ticket",
                     !.ciphersuite_info = s.ciphersuite,
                     !.key_exchange_mode = KEX_PSK_ALL], OK)

\* binders_len is the out parameter of the same name: the room left for
\* the binders after the identities.
mbedtls_ssl_tls13_write_identities_of_pre_shared_key_ext(s, c, now, fail) ==
    IF ssl_tls13_get_configured_psk_count(s, c) = 0
    THEN R([s EXCEPT !.psk_identities = <<>>, !.psk_binders = <<>>,
                     !.binders_len = 0], OK)
    ELSE
    Chk(IF ssl_tls13_has_configured_ticket(s, c)
        THEN WriteTicketIdentity(
                 [s EXCEPT !.psk_identities = <<>>, !.psk_binders = <<>>,
                           !.binders_len = 0],
                 now, fail)
        ELSE R([s EXCEPT !.psk_identities = <<>>, !.psk_binders = <<>>,
                         !.binders_len = 0], OK),
        LAMBDA s1 :
    IF mbedtls_ssl_conf_has_static_psk(c)
    THEN R([s1 EXCEPT !.psk_identities =
                          Append(@, PskIdentity("psk_identity", ToU32(0))),
                      !.binders_len = @ + 1 + 32 + 2], OK)
    ELSE R([s1 EXCEPT !.binders_len = @ + 2], OK))

PskBinder(psk_type, psk, len) == [psk_type |-> psk_type, psk |-> psk, len |-> len]

\* The binders with that of the static PSK ahead of that of the ticket:
\* C25 does not hold of it.
WriteBindersStaticFirst(s, c, fail) ==
    LET b1 == IF ssl_tls13_has_configured_ticket(s, c)
              THEN <<PskBinder("RESUMPTION", "resumption_key",
                               ssl_tls13_get_ciphersuite_hash_len(s.ciphersuite))>>
              ELSE <<>>
        b2 == IF mbedtls_ssl_conf_has_static_psk(c)
              THEN <<PskBinder("EXTERNAL", "psk", 32)>>
              ELSE <<>>
    IN
    IF fail = "create_psk_binder" THEN R(s, "CREATE_PSK_BINDER_FAILED")
    ELSE R(WriteExt([s EXCEPT !.psk_binders = b2 \o b1], "PRE_SHARED_KEY",
                    [identities |-> s.psk_identities, binders |-> b2 \o b1]),
           OK)

\* Lines 1036-1091: one binder for each PSK offered, that of the ticket
\* (resumption) ahead of that of the static PSK (external, SHA-256).
mbedtls_ssl_tls13_write_binders_of_pre_shared_key_ext(s, c, fail) ==
    LET b1 == IF ssl_tls13_has_configured_ticket(s, c)
              THEN <<PskBinder("RESUMPTION", "resumption_key",
                               ssl_tls13_get_ciphersuite_hash_len(s.ciphersuite))>>
              ELSE <<>>
        b2 == IF mbedtls_ssl_conf_has_static_psk(c)
              THEN <<PskBinder("EXTERNAL", "psk", 32)>>
              ELSE <<>>
    IN
    IF fail = "create_psk_binder" THEN R(s, "CREATE_PSK_BINDER_FAILED")
    ELSE R(WriteExt([s EXCEPT !.psk_binders = b1 \o b2], "PRE_SHARED_KEY",
                    [identities |-> s.psk_identities, binders |-> b1 \o b2]),
           OK)

\* The legacy_session_id of a ClientHello in compatibility mode: random
\* bytes, two of them here for the 32 of the message.
CompatSessionId == <<170, 187>>

\* ssl_prepare_client_hello (ssl_client.c): the session id of the
\* negotiated session is kept when it has the length the ClientHello needs
\* (32 in compatibility mode, 0 otherwise) and is drawn anew when not.
ssl_prepare_client_hello(s, c) ==
    LET session_id == IF c.MBEDTLS_SSL_TLS1_3_COMPATIBILITY_MODE
                      THEN CompatSessionId ELSE <<>>
    IN [s EXCEPT !.id = IF Len(@) # Len(session_id) THEN session_id ELSE @]

\* A ClientHello with pre_shared_key written ahead of the extensions of
\* this file: C16 does not hold of it.
WriteClientHelloPreSharedKeyFirst(s, c, now, fail) ==
    Chk(IF mbedtls_ssl_conf_tls13_some_psk_enabled(c)
        THEN mbedtls_ssl_tls13_write_identities_of_pre_shared_key_ext(
                 [ssl_prepare_client_hello(s, c) EXCEPT
                      !.client_hello = <<>>, !.sent_extensions = {}],
                 c, now, fail)
        ELSE R([ssl_prepare_client_hello(s, c) EXCEPT
                    !.client_hello = <<>>, !.sent_extensions = {}], OK),
        LAMBDA s1 :
    Chk(IF mbedtls_ssl_conf_tls13_some_psk_enabled(c) /\ s1.psk_identities # <<>>
        THEN mbedtls_ssl_tls13_write_binders_of_pre_shared_key_ext(s1, c, fail)
        ELSE R(s1, OK), LAMBDA s2 :
    Chk(mbedtls_ssl_tls13_write_client_hello_exts(s2, c, fail), LAMBDA s3 :
    IF fail = "finish_handshake_msg" THEN R(s3, "FINISH_MSG_FAILED")
    ELSE R(mbedtls_ssl_handshake_set_state(s3, "SERVER_HELLO"), OK))))

\* mbedtls_ssl_write_client_hello (ssl_client.c): the session id, the
\* extensions of this file, then the identities of pre_shared_key as the
\* last extension when a PSK mode is enabled, then the binders once the
\* message up to them is in the transcript; on success the state becomes
\* SERVER_HELLO.
mbedtls_ssl_write_client_hello(s, c, now, fail) ==
    Chk(mbedtls_ssl_tls13_write_client_hello_exts(
            [ssl_prepare_client_hello(s, c) EXCEPT
                 !.client_hello = <<>>, !.sent_extensions = {}], c, fail),
        LAMBDA s1 :
    Chk(IF mbedtls_ssl_conf_tls13_some_psk_enabled(c)
        THEN mbedtls_ssl_tls13_write_identities_of_pre_shared_key_ext(
                 s1, c, now, fail)
        ELSE R(s1, OK), LAMBDA s2 :
    Chk(IF mbedtls_ssl_conf_tls13_some_psk_enabled(c) /\ s2.psk_identities # <<>>
        THEN mbedtls_ssl_tls13_write_binders_of_pre_shared_key_ext(s2, c, fail)
        ELSE R(s2, OK), LAMBDA s3 :
    IF fail = "finish_handshake_msg" THEN R(s3, "FINISH_MSG_FAILED")
    ELSE R(mbedtls_ssl_handshake_set_state(s3, "SERVER_HELLO"), OK))))

(***************************************************************************)
(* EncryptedExtensions.  A message is [hdr, exts]; hdr is "ok",            *)
(* "truncated" (a length runs past the end) or "misaligned" (bytes are     *)
(* left after the extensions).                                             *)
(***************************************************************************)
ssl_tls13_parse_alpn_ext(s, alpn_list, protocol_name) ==
    IF alpn_list = <<>> THEN R(s, "BAD_INPUT_DATA")
    ELSE IF \E i \in 1..Len(alpn_list) : alpn_list[i] = protocol_name
    THEN R([s EXCEPT !.alpn_chosen = protocol_name], OK)
    ELSE R(s, "BAD_INPUT_DATA")

\* A switch that takes an early_data extension of any length: C35 does
\* not hold of it.
ParseEncryptedExtensionOfAnyLength(s, alpn_list, e) ==
    CASE e.type = "ALPN" -> ssl_tls13_parse_alpn_ext(s, alpn_list, e.val)
      [] OTHER -> R(s, OK)

\* Lines 2046-2076: the switch on the type of one extension.
ParseEncryptedExtension(s, alpn_list, e) ==
    CASE e.type = "ALPN" -> ssl_tls13_parse_alpn_ext(s, alpn_list, e.val)
      [] e.type = "EARLY_DATA" ->
             IF e.val # 0
             THEN R(PendFatalAlert(s, "DECODE_ERROR"), "DECODE_ERROR")
             ELSE R(s, OK)
      [] OTHER -> R(s, OK)

RECURSIVE ParseEncryptedExtensionsLoop(_, _, _)
ParseEncryptedExtensionsLoop(s, alpn_list, exts) ==
    IF exts = <<>> THEN R(s, OK)
    ELSE
    Chk(mbedtls_ssl_tls13_check_received_extension(
            s, Head(exts).type, ALLOWED_EXTS_OF_EE), LAMBDA s1 :
    Chk(ParseEncryptedExtension(s1, alpn_list, Head(exts)), LAMBDA s2 :
    ParseEncryptedExtensionsLoop(s2, alpn_list, Tail(exts))))

ssl_tls13_parse_encrypted_extensions(s, alpn_list, m) ==
    IF m.hdr = "truncated"
    THEN R(PendFatalAlert(s, "DECODE_ERROR"), "DECODE_ERROR")
    ELSE
    Chk(ParseEncryptedExtensionsLoop([s EXCEPT !.received_extensions = {}],
                                     alpn_list, m.exts), LAMBDA s1 :
    IF m.hdr = "misaligned"
    THEN R(PendFatalAlert(s1, "DECODE_ERROR"), "DECODE_ERROR")
    ELSE R(s1, OK))

\* A choice in which only the pure PSK mode skips the certificates: C8
\* does not hold of it.
StateAfterEncryptedExtensionsPskOnly(s, c) ==
    IF s.key_exchange_mode = KEX_PSK
    THEN "SERVER_FINISHED"
    ELSE "CERTIFICATE_REQUEST"

\* Lines 2122-2131: the state that follows EncryptedExtensions.
StateAfterEncryptedExtensions(s, c) ==
    IF c.MBEDTLS_SSL_TLS1_3_KEY_EXCHANGE_MODE_EPHEMERAL_ENABLED
    THEN IF mbedtls_ssl_tls13_key_exchange_mode_with_psk(s)
         THEN "SERVER_FINISHED"
         ELSE "CERTIFICATE_REQUEST"
    ELSE "SERVER_FINISHED"

\* An EncryptedExtensions that accepts the early data the client offered
\* whatever the message carries: C18 does not hold of it.
ProcessEncryptedExtensionsAcceptingOffer(s, c, alpn_list, m, fail) ==
    Chk(mbedtls_ssl_tls13_fetch_handshake_msg(s, fail), LAMBDA s1 :
    Chk(ssl_tls13_parse_encrypted_extensions(s1, alpn_list, m), LAMBDA s2 :
    Chk(R(IF s2.early_data_status = "REJECTED"
          THEN [s2 EXCEPT !.early_data_status = "ACCEPTED"]
          ELSE s2, OK), LAMBDA s3 :
    R(mbedtls_ssl_handshake_set_state(
          s3, StateAfterEncryptedExtensions(s3, c)), OK))))

ssl_tls13_process_encrypted_extensions(s, c, alpn_list, m, fail) ==
    Chk(mbedtls_ssl_tls13_fetch_handshake_msg(s, fail), LAMBDA s1 :
    Chk(ssl_tls13_parse_encrypted_extensions(s1, alpn_list, m), LAMBDA s2 :
    Chk(R(IF "EARLY_DATA" \in s2.received_extensions
          THEN [s2 EXCEPT !.early_data_status = "ACCEPTED"]
          ELSE s2, OK), LAMBDA s3 :
    R(mbedtls_ssl_handshake_set_state(
          s3, StateAfterEncryptedExtensions(s3, c)), OK))))

(***************************************************************************)
(* CertificateRequest.  A message is [type, hdr, context, exts]; type      *)
(* says whether the record read is a CertificateRequest at all.            *)
(***************************************************************************)
ssl_tls13_certificate_request_coordinate(s, m, fail) ==
    IF fail = "read_record" THEN R(s, "READ_RECORD_FAILED")
    ELSE IF m.type = "certificate_request"
    THEN R([s EXCEPT !.keep_current_message = 1],
           "SSL_CERTIFICATE_REQUEST_EXPECT_REQUEST")
    ELSE R([s EXCEPT !.keep_current_message = 1],
           "SSL_CERTIFICATE_REQUEST_SKIP")

\* Lines 2303-2320: the switch on the type of one extension.
ParseCertificateRequestExt(s, e) ==
    IF e.type = "SIG_ALG" /\ e.val # 1
    THEN R(PendFatalAlert(s, "DECODE_ERROR"), "DECODE_ERROR")
    ELSE R(s, OK)

RECURSIVE ParseCertificateRequestLoop(_, _)
ParseCertificateRequestLoop(s, exts) ==
    IF exts = <<>> THEN R(s, OK)
    ELSE
    Chk(mbedtls_ssl_tls13_check_received_extension(
            s, Head(exts).type, ALLOWED_EXTS_OF_CR), LAMBDA s1 :
    Chk(ParseCertificateRequestExt(s1, Head(exts)), LAMBDA s2 :
    ParseCertificateRequestLoop(s2, Tail(exts))))

\* A parser that does not ask for signature_algorithms: C30 does not hold
\* of it.
ParseCertificateRequestWithoutSigAlg(s, m, fail) ==
    IF m.hdr = "truncated"
    THEN R(PendFatalAlert(s, "DECODE_ERROR"), "DECODE_ERROR")
    ELSE IF Len(m.context) > 0 /\ fail = "calloc" THEN R(s, "ALLOC_FAILED")
    ELSE
    Chk(ParseCertificateRequestLoop(
            [s EXCEPT !.certificate_request_context =
                          IF Len(m.context) > 0 THEN m.context ELSE @,
                      !.received_extensions = {}], m.exts), LAMBDA s1 :
    IF m.hdr = "misaligned"
    THEN R(PendFatalAlert(s1, "DECODE_ERROR"), "DECODE_ERROR")
    ELSE R([s1 EXCEPT !.client_auth = TRUE], OK))

\* A parser that allocates the context and does not copy the bytes into
\* it: C34 does not hold of it.
ParseCertificateRequestWithoutCopy(s, m, fail) ==
    IF m.hdr = "truncated"
    THEN R(PendFatalAlert(s, "DECODE_ERROR"), "DECODE_ERROR")
    ELSE IF Len(m.context) > 0 /\ fail = "calloc" THEN R(s, "ALLOC_FAILED")
    ELSE
    Chk(ParseCertificateRequestLoop(
            [s EXCEPT !.certificate_request_context =
                          [i \in 1..Len(m.context) |-> 0],
                      !.received_extensions = {}], m.exts), LAMBDA s1 :
    IF m.hdr = "misaligned" \/ "SIG_ALG" \notin s1.received_extensions
    THEN R(PendFatalAlert(s1, "DECODE_ERROR"), "DECODE_ERROR")
    ELSE R([s1 EXCEPT !.client_auth = TRUE], OK))

\* Lines 2237-2352.
ssl_tls13_parse_certificate_request(s, m, fail) ==
    IF m.hdr = "truncated"
    THEN R(PendFatalAlert(s, "DECODE_ERROR"), "DECODE_ERROR")
    ELSE IF Len(m.context) > 0 /\ fail = "calloc" THEN R(s, "ALLOC_FAILED")
    ELSE
    Chk(ParseCertificateRequestLoop(
            [s EXCEPT !.certificate_request_context =
                          IF Len(m.context) > 0 THEN m.context ELSE @,
                      !.received_extensions = {}], m.exts), LAMBDA s1 :
    IF m.hdr = "misaligned" \/ "SIG_ALG" \notin s1.received_extensions
    THEN R(PendFatalAlert(s1, "DECODE_ERROR"), "DECODE_ERROR")
    ELSE R([s1 EXCEPT !.client_auth = TRUE], OK))

\* Lines 2366-2387: what follows the coordination.
AfterCoordinate(co, m, fail) ==
    IF co.ret = "SSL_CERTIFICATE_REQUEST_EXPECT_REQUEST"
    THEN Chk(mbedtls_ssl_tls13_fetch_handshake_msg(co.s, fail), LAMBDA s1 :
         Chk(ssl_tls13_parse_certificate_request(s1, m, fail), LAMBDA s2 :
         R(mbedtls_ssl_handshake_set_state(s2, "SERVER_CERTIFICATE"), OK)))
    ELSE IF co.ret = "SSL_CERTIFICATE_REQUEST_SKIP"
    THEN R(mbedtls_ssl_handshake_set_state(co.s, "SERVER_CERTIFICATE"), OK)
    ELSE co

ssl_tls13_process_certificate_request(s, m, fail) ==
    AfterCoordinate(ssl_tls13_certificate_request_coordinate(s, m, fail),
                    m, fail)

(***************************************************************************)
(* The rest of the server flight and the client flight.  The messages are  *)
(* read and written by ssl_tls13_generic.c; here a call succeeds or fails. *)
(***************************************************************************)
\* A server Certificate after which the Finished is read at once: C37
\* does not hold of it.
ProcessServerCertificateSkippingVerify(s, fail) ==
    IF fail = "process_certificate" THEN R(s, "PROCESS_CERTIFICATE_FAILED")
    ELSE R(mbedtls_ssl_handshake_set_state(
               Call([s EXCEPT !.keep_current_message = 0],
                    "process_certificate"), "SERVER_FINISHED"), OK)

\* Lines 2399-2410.
ssl_tls13_process_server_certificate(s, fail) ==
    IF fail = "process_certificate" THEN R(s, "PROCESS_CERTIFICATE_FAILED")
    ELSE R(mbedtls_ssl_handshake_set_state(
               Call([s EXCEPT !.keep_current_message = 0],
                    "process_certificate"), "CERTIFICATE_VERIFY"), OK)

ssl_tls13_process_certificate_verify(s, fail) ==
    IF fail = "process_certificate_verify"
    THEN R(s, "PROCESS_CERTIFICATE_VERIFY_FAILED")
    ELSE R(mbedtls_ssl_handshake_set_state(
               Call([s EXCEPT !.keep_current_message = 0],
                    "process_certificate_verify"), "SERVER_FINISHED"), OK)

\* Lines 2451-2463: the state that follows the server Finished.
StateAfterServerFinished(s, c) ==
    IF s.early_data_status = "ACCEPTED" THEN "END_OF_EARLY_DATA"
    ELSE IF c.MBEDTLS_SSL_TLS1_3_COMPATIBILITY_MODE
    THEN "CLIENT_CCS_AFTER_SERVER_FINISHED"
    ELSE "CLIENT_CERTIFICATE"

\* A server Finished that advances the state before the application
\* transform is computed: C36 does not hold of it.
ProcessServerFinishedAdvancingFirst(s, c, fail) ==
    LET s1 == mbedtls_ssl_handshake_set_state(
                  Call([s EXCEPT !.keep_current_message = 0],
                       "process_finished_message"),
                  StateAfterServerFinished(s, c))
    IN
    IF fail = "process_finished_message"
    THEN R(s, "PROCESS_FINISHED_FAILED")
    ELSE IF fail = "compute_application_transform"
    THEN R(PendFatalAlert(s1, "HANDSHAKE_FAILURE"),
           "COMPUTE_APPLICATION_TRANSFORM_FAILED")
    ELSE R(Call(s1, "compute_application_transform"), OK)

\* Lines 2434-2466.
ssl_tls13_process_server_finished(s, c, fail) ==
    LET s1 == Call([s EXCEPT !.keep_current_message = 0],
                   "process_finished_message")
    IN
    IF fail = "process_finished_message"
    THEN R(s, "PROCESS_FINISHED_FAILED")
    ELSE IF fail = "compute_application_transform"
    THEN R(PendFatalAlert(s1, "HANDSHAKE_FAILURE"),
           "COMPUTE_APPLICATION_TRANSFORM_FAILED")
    ELSE R(mbedtls_ssl_handshake_set_state(
               Call(s1, "compute_application_transform"),
               StateAfterServerFinished(s1, c)), OK)

\* An EndOfEarlyData that is written without leaving END_OF_EARLY_DATA: C9
\* does not hold of it.
WriteEndOfEarlyDataStaying(s, fail) ==
    IF fail = "start_handshake_msg" THEN R(s, "START_MSG_FAILED")
    ELSE IF fail = "finish_handshake_msg" THEN R(s, "FINISH_MSG_FAILED")
    ELSE R([s EXCEPT !.transform_out = "handshake"], OK)

\* An EndOfEarlyData whose outbound transform is switched before the
\* message is started: C17 does not hold of it.
WriteEndOfEarlyDataSwitchingFirst(s, fail) ==
    LET s0 == Call([s EXCEPT !.transform_out = "handshake"],
                   "set_outbound_transform")
        s1 == Call(Call([s0 EXCEPT !.out_msg = OutMsg("END_OF_EARLY_DATA", 0, FALSE)],
                        "start_handshake_msg"), "add_hs_hdr_to_checksum")
    IN
    IF fail = "start_handshake_msg" THEN R(s0, "START_MSG_FAILED")
    ELSE IF fail = "finish_handshake_msg" THEN R(s1, "FINISH_MSG_FAILED")
    ELSE R(mbedtls_ssl_handshake_set_state(
               Call([s1 EXCEPT !.out_msg = OutMsg("END_OF_EARLY_DATA", 0, TRUE)],
                    "finish_handshake_msg"), "CLIENT_CERTIFICATE"), OK)

\* Lines 2163-2190.  The message is started, its header goes into the
\* transcript with a body length of 0, it is finished with msg_len 0, and
\* then the outbound transform is switched; PROC_CHK leaves at the first
\* call that fails.
ssl_tls13_write_end_of_early_data(s, fail) ==
    LET s1 == Call(Call([s EXCEPT !.out_msg = OutMsg("END_OF_EARLY_DATA", 0, FALSE)],
                        "start_handshake_msg"), "add_hs_hdr_to_checksum")
        s2 == Call([s1 EXCEPT !.out_msg = OutMsg("END_OF_EARLY_DATA", 0, TRUE)],
                   "finish_handshake_msg")
    IN
    IF fail = "start_handshake_msg" THEN R(s, "START_MSG_FAILED")
    ELSE IF fail = "finish_handshake_msg" THEN R(s1, "FINISH_MSG_FAILED")
    ELSE R(mbedtls_ssl_handshake_set_state(
               Call([s2 EXCEPT !.transform_out = "handshake"],
                    "set_outbound_transform"), "CLIENT_CERTIFICATE"), OK)

\* A handler that goes on to the CertificateVerify whenever a certificate
\* was asked for, with or without a certificate of its own: C31 does not
\* hold of it.
WriteClientCertificateVerifyingAlways(s, c, own_cert, fail) ==
    LET s1 == [s EXCEPT !.transform_out = "handshake"]
        auth == c.MBEDTLS_SSL_TLS1_3_KEY_EXCHANGE_MODE_EPHEMERAL_ENABLED
                /\ s.client_auth
    IN
    IF auth /\ fail = "write_certificate"
    THEN R(s1, "WRITE_CERTIFICATE_FAILED")
    ELSE R(mbedtls_ssl_handshake_set_state(
               IF auth THEN Call(s1, "write_certificate") ELSE s1,
               IF auth THEN "CLIENT_CERTIFICATE_VERIFY" ELSE "CLIENT_FINISHED"),
           OK)

\* Lines 2472-2504.
ssl_tls13_write_client_certificate(s, c, own_cert, fail) ==
    LET s1 == [s EXCEPT !.transform_out = "handshake"]
        auth == c.MBEDTLS_SSL_TLS1_3_KEY_EXCHANGE_MODE_EPHEMERAL_ENABLED
                /\ s.client_auth
        non_empty_certificate_msg == auth /\ own_cert
    IN
    IF auth /\ fail = "write_certificate"
    THEN R(s1, "WRITE_CERTIFICATE_FAILED")
    ELSE R(mbedtls_ssl_handshake_set_state(
               IF auth THEN Call(s1, "write_certificate") ELSE s1,
               IF non_empty_certificate_msg
               THEN "CLIENT_CERTIFICATE_VERIFY" ELSE "CLIENT_FINISHED"), OK)

ssl_tls13_write_client_certificate_verify(s, fail) ==
    IF fail = "write_certificate_verify"
    THEN R(s, "WRITE_CERTIFICATE_VERIFY_FAILED")
    ELSE R(mbedtls_ssl_handshake_set_state(
               Call(s, "write_certificate_verify"), "CLIENT_FINISHED"), OK)

\* A client Finished that is written after the resumption master secret
\* was computed: C40 does not hold of it.
WriteClientFinishedSecretFirst(s, fail) ==
    IF fail = "compute_resumption_master_secret"
    THEN R(s, "COMPUTE_RESUMPTION_MASTER_SECRET_FAILED")
    ELSE IF fail = "write_finished_message"
    THEN R(Call(s, "compute_resumption_master_secret"),
           "WRITE_FINISHED_FAILED")
    ELSE R(mbedtls_ssl_handshake_set_state(
               Call(Call(s, "compute_resumption_master_secret"),
                    "write_finished_message"), "FLUSH_BUFFERS"), OK)

\* Lines 2527-2545.
ssl_tls13_write_client_finished(s, fail) ==
    IF fail = "write_finished_message" THEN R(s, "WRITE_FINISHED_FAILED")
    ELSE IF fail = "compute_resumption_master_secret"
    THEN R(Call(s, "write_finished_message"),
           "COMPUTE_RESUMPTION_MASTER_SECRET_FAILED")
    ELSE R(mbedtls_ssl_handshake_set_state(
               Call(Call(s, "write_finished_message"),
                    "compute_resumption_master_secret"), "FLUSH_BUFFERS"), OK)

\* A flush that goes to HANDSHAKE_OVER at once: C7 does not hold of it.
FlushBuffersToHandshakeOver(s) ==
    R(mbedtls_ssl_handshake_set_state(s, "HANDSHAKE_OVER"), OK)

\* A flush that leaves the state where it is: C33 does not hold of it.
FlushBuffersStaying(s) == R(s, OK)

ssl_tls13_flush_buffers(s) ==
    R(mbedtls_ssl_handshake_set_state(s, "HANDSHAKE_WRAPUP"), OK)

\* mbedtls_ssl_tls13_handshake_wrapup switches both directions to the
\* application keys.
ssl_tls13_handshake_wrapup(s) ==
    R(mbedtls_ssl_handshake_set_state(
          Call([s EXCEPT !.transform_in = "application",
                         !.transform_out = "application"],
               "handshake_wrapup"), "HANDSHAKE_OVER"), OK)

\* Lines 2909-2921: the two dummy ChangeCipherSpec states.
WriteChangeCipherSpec(s, next, fail) ==
    IF fail = "write_change_cipher_spec" THEN R(s, "WRITE_CCS_FAILED")
    ELSE R(mbedtls_ssl_handshake_set_state(s, next), OK)

(***************************************************************************)
(* NewSessionTicket.  A message is                                         *)
(*   [type, hdr, ticket_lifetime, ticket_age_add, ticket_nonce, ticket,    *)
(*    ticket_len, exts, cut]                                               *)
(* where cut names the field in which the buffer ends short ("none" when   *)
(* it does not) and an extension carries its length.  The session written  *)
(* is the one the handshake negotiated.                                    *)
(***************************************************************************)
ALLOWED_EXTS_OF_NST == {"EARLY_DATA", "UNRECOGNIZED"}

TICKET_FLAGS_MASK == KEX_ALL \cup {"ALLOW_EARLY_DATA"}

mbedtls_ssl_session_clear_ticket_flags(s, flags) ==
    [s EXCEPT !.ticket_flags = @ \ (flags \cap TICKET_FLAGS_MASK)]

mbedtls_ssl_session_set_ticket_flags(s, flags) ==
    [s EXCEPT !.ticket_flags = @ \cup (flags \cap TICKET_FLAGS_MASK)]

\* An early_data extension of any length allows early data: C22 does not
\* hold of it.
ParseNewSessionTicketExtOfAnyLength(s, e) ==
    IF e.type = "EARLY_DATA"
    THEN R([s EXCEPT !.ticket_flags = @ \cup {"ALLOW_EARLY_DATA"}], OK)
    ELSE R(s, OK)

\* Lines 2603-2624: early_data, of length 4, allows early data with the
\* ticket; any other extension is ignored.
ParseNewSessionTicketExt(s, e) ==
    IF e.type = "EARLY_DATA"
    THEN IF e.val # 4
         THEN R(PendFatalAlert(s, "DECODE_ERROR"), "DECODE_ERROR")
         ELSE R([s EXCEPT !.ticket_flags = @ \cup {"ALLOW_EARLY_DATA"}], OK)
    ELSE R(s, OK)

RECURSIVE ParseNewSessionTicketExtsLoop(_, _, _)
ParseNewSessionTicketExtsLoop(s, exts, cut) ==
    IF exts = <<>>
    THEN IF cut = "extension"
         THEN R(PendFatalAlert(s, "DECODE_ERROR"), "DECODE_ERROR")
         ELSE R(s, OK)
    ELSE
    Chk(mbedtls_ssl_tls13_check_received_extension(
            s, Head(exts).type, ALLOWED_EXTS_OF_NST), LAMBDA s1 :
    Chk(ParseNewSessionTicketExt(s1, Head(exts)), LAMBDA s2 :
    ParseNewSessionTicketExtsLoop(s2, Tail(exts), cut)))

ssl_tls13_parse_new_session_ticket_exts(s, exts, cut) ==
    ParseNewSessionTicketExtsLoop([s EXCEPT !.received_extensions = {}],
                                  exts, cut)

\* A ticket that is appended to the ticket held: C21 does not hold of it.
ReplaceTicketAccumulating(s, m, fail) ==
    IF fail = "calloc"
    THEN R([s EXCEPT !.ticket = "NULL", !.ticket_len = 0], "ALLOC_FAILED")
    ELSE R(mbedtls_ssl_session_clear_ticket_flags(
               [s EXCEPT !.ticket = m.ticket, !.ticket_len = @ + m.ticket_len],
               TICKET_FLAGS_MASK), OK)

\* A replacement that keeps the ticket held when the new one cannot be
\* allocated: C39 does not hold of it.
ReplaceTicketKeepingOnFailure(s, m, fail) ==
    IF fail = "calloc"
    THEN R(s, "ALLOC_FAILED")
    ELSE R(mbedtls_ssl_session_clear_ticket_flags(
               [s EXCEPT !.ticket = m.ticket, !.ticket_len = m.ticket_len],
               TICKET_FLAGS_MASK), OK)

\* Lines 2695-2713: the ticket held is freed, the new one is copied and
\* the ticket flags are cleared.
ReplaceTicket(s, m, fail) ==
    IF fail = "calloc"
    THEN R([s EXCEPT !.ticket = "NULL", !.ticket_len = 0], "ALLOC_FAILED")
    ELSE R(mbedtls_ssl_session_clear_ticket_flags(
               [s EXCEPT !.ticket = m.ticket, !.ticket_len = m.ticket_len],
               TICKET_FLAGS_MASK), OK)

ssl_tls13_parse_new_session_ticket(s, m, fail) ==
    IF m.cut = "header"
    THEN R(PendFatalAlert(s, "DECODE_ERROR"), "DECODE_ERROR")
    ELSE IF m.cut \in {"ticket_nonce", "ticket"}
    THEN R(PendFatalAlert([s EXCEPT !.ticket_lifetime = m.ticket_lifetime,
                                    !.ticket_age_add = m.ticket_age_add],
                          "DECODE_ERROR"), "DECODE_ERROR")
    ELSE
    Chk(ReplaceTicket([s EXCEPT !.ticket_lifetime = m.ticket_lifetime,
                                !.ticket_age_add = m.ticket_age_add],
                      m, fail), LAMBDA s1 :
    IF m.cut = "extensions"
    THEN R(PendFatalAlert(s1, "DECODE_ERROR"), "DECODE_ERROR")
    ELSE
    Chk(ssl_tls13_parse_new_session_ticket_exts(s1, m.exts, m.cut),
        LAMBDA s2 : R([s2 EXCEPT !.exported = 0], OK)))

\* The resumption key is HKDF-Expand-Label(resumption_master_secret,
\* "resumption", ticket_nonce, Hash.length): what it is derived from.
ssl_tls13_postprocess_new_session_ticket(s, c, ticket_nonce, now, fail) ==
    IF ~CiphersuiteValid(s.ciphersuite)
    THEN R([s EXCEPT !.ticket_received = now], "INTERNAL_ERROR")
    ELSE IF fail = "hkdf_expand_label"
    THEN R([s EXCEPT !.ticket_received = now], "HKDF_EXPAND_LABEL_FAILED")
    ELSE R(mbedtls_ssl_session_set_ticket_flags(
               [s EXCEPT !.ticket_received = now,
                         !.resumption_key =
                             [ticket_nonce |-> ticket_nonce,
                              len |-> ssl_tls13_get_ciphersuite_hash_len(
                                          s.ciphersuite)],
                         !.resumption_key_len =
                             ssl_tls13_get_ciphersuite_hash_len(s.ciphersuite)],
               c.tls13_kex_modes), OK)

ssl_tls13_process_new_session_ticket(s, c, m, now, fail) ==
    Chk(mbedtls_ssl_tls13_fetch_handshake_msg(s, fail), LAMBDA s1 :
    Chk(ssl_tls13_parse_new_session_ticket(s1, m, fail), LAMBDA s2 :
    Chk(ssl_tls13_postprocess_new_session_ticket(s2, c, m.ticket_nonce,
                                                 now, fail), LAMBDA s3 :
    R(mbedtls_ssl_handshake_set_state(s3, "HANDSHAKE_OVER"), OK))))

\* A step that signals a ticket whether it was processed or not: C20 does
\* not hold of it.
NewSessionTicketStepAlwaysSignalling(r) ==
    R(r.s, "RECEIVED_NEW_SESSION_TICKET")

\* Lines 2925-2931: a ticket that was processed is signalled to the caller.
NewSessionTicketStep(r) ==
    IF r.ret # OK THEN r ELSE R(r.s, "RECEIVED_NEW_SESSION_TICKET")

(***************************************************************************)
(* The step function.  The inputs of a step are a record                   *)
(*   [m, fail, now, alpn_list, own_cert]:                                  *)
(* the message the peer sent, the external call that fails ("none" when    *)
(* all succeed), the clock, and the two settings of the configuration that *)
(* are read once, where a handler needs them.                              *)
(***************************************************************************)
mbedtls_ssl_tls13_handshake_client_step(s, c, in) ==
    LET eph == c.MBEDTLS_SSL_TLS1_3_KEY_EXCHANGE_MODE_EPHEMERAL_ENABLED
        ccs == c.MBEDTLS_SSL_TLS1_3_COMPATIBILITY_MODE
    IN
    CASE s.state = "HELLO_REQUEST" ->
             R(mbedtls_ssl_handshake_set_state(s, "CLIENT_HELLO"), OK)
      [] s.state = "CLIENT_HELLO" ->
             mbedtls_ssl_write_client_hello(s, c, in.now, in.fail)
      [] s.state = "SERVER_HELLO" ->
             ssl_tls13_process_server_hello(s, c, in.m, in.fail)
      [] s.state = "ENCRYPTED_EXTENSIONS" ->
             ssl_tls13_process_encrypted_extensions(s, c, in.alpn_list,
                                                    in.m, in.fail)
      [] eph /\ s.state = "CERTIFICATE_REQUEST" ->
             ssl_tls13_process_certificate_request(s, in.m, in.fail)
      [] eph /\ s.state = "SERVER_CERTIFICATE" ->
             ssl_tls13_process_server_certificate(s, in.fail)
      [] eph /\ s.state = "CERTIFICATE_VERIFY" ->
             ssl_tls13_process_certificate_verify(s, in.fail)
      [] s.state = "SERVER_FINISHED" ->
             ssl_tls13_process_server_finished(s, c, in.fail)
      [] s.state = "END_OF_EARLY_DATA" ->
             ssl_tls13_write_end_of_early_data(s, in.fail)
      [] s.state = "CLIENT_CERTIFICATE" ->
             ssl_tls13_write_client_certificate(s, c, in.own_cert, in.fail)
      [] eph /\ s.state = "CLIENT_CERTIFICATE_VERIFY" ->
             ssl_tls13_write_client_certificate_verify(s, in.fail)
      [] s.state = "CLIENT_FINISHED" ->
             ssl_tls13_write_client_finished(s, in.fail)
      [] s.state = "FLUSH_BUFFERS" -> ssl_tls13_flush_buffers(s)
      [] s.state = "HANDSHAKE_WRAPUP" -> ssl_tls13_handshake_wrapup(s)
      [] ccs /\ s.state = "CLIENT_CCS_BEFORE_2ND_CLIENT_HELLO" ->
             WriteChangeCipherSpec(s, "CLIENT_HELLO", in.fail)
      [] ccs /\ s.state = "CLIENT_CCS_AFTER_SERVER_FINISHED" ->
             WriteChangeCipherSpec(s, "CLIENT_CERTIFICATE", in.fail)
      [] s.state = "NEW_SESSION_TICKET" ->
             NewSessionTicketStep(
                 ssl_tls13_process_new_session_ticket(s, c, in.m, in.now,
                                                      in.fail))
      [] OTHER -> R(s, "BAD_INPUT_DATA")

(***************************************************************************)
(* What the peer can send.                                                 *)
(***************************************************************************)
SupportedVersions13 == Ext("SUPPORTED_VERSIONS", MBEDTLS_SSL_VERSION_TLS1_3)

\* The extensions, besides supported_versions, a ServerHello or a
\* HelloRetryRequest is built from: key_share of a group, pre_shared_key
\* of a selected identity, cookie (its bytes), and early_data, which neither
\* message may carry.
ServerHelloExts ==
    {Ext("KEY_SHARE", g) : g \in {23, 29, 256}}
    \cup {Ext("PRE_SHARED_KEY", i) : i \in 0..2}
    \cup {Ext("COOKIE", <<1, 2>>), Ext("EARLY_DATA", 0)}

\* Sequences of at most n of them, of distinct types.
RECURSIVE ExtSeqs(_)
ExtSeqs(n) ==
    IF n = 0 THEN {<<>>}
    ELSE LET shorter == ExtSeqs(n - 1) IN
         shorter \cup
         {Append(x[1], x[2]) :
              x \in {y \in shorter \X ServerHelloExts :
                         \A i \in 1..Len(y[1]) : y[1][i].type # y[2].type}}

SessionIdEcho(bytes) == [len |-> Len(bytes), bytes |-> bytes]

\* A server echoes the session id of the ClientHello it answers.
ServerHelloMsg(hdr, rnd, cipher_suite, exts) ==
    [type |-> "server_hello", hdr |-> hdr, rnd |-> rnd,
     legacy_session_id_echo |-> SessionIdEcho(ssl.id),
     cipher_suite |-> cipher_suite, exts |-> exts]

\* Echoes that are not the session id sent: none, one byte (the first of
\* the id, or another), the id with a byte added, with its last byte
\* changed, with its first byte changed, and an echo that the end of the
\* message cuts short.
WrongSessionIdEchoes(id) ==
    ({SessionIdEcho(b) :
          b \in {<<>>, <<170>>, <<170, 187, 0>>, <<170, 186>>, <<171, 187>>,
                 <<1>>}}
     \ {SessionIdEcho(id)})
    \cup {[len |-> Len(id) + 1, bytes |-> id]}

\* Well-formed messages with supported_versions = TLS 1.3 first: every
\* sequence of extensions with the first ciphersuite, the usual ones with
\* the second.
WellFormedServerHellos ==
    {ServerHelloMsg("ok", rnd, 4865, <<SupportedVersions13>> \o exts) :
         rnd \in {"random", "hrr_magic"}, exts \in ExtSeqs(MaxExts)}
    \cup {ServerHelloMsg("ok", rnd, 4866, <<SupportedVersions13>> \o exts) :
              rnd \in {"random", "hrr_magic"},
              exts \in {<<Ext("KEY_SHARE", 23)>>, <<Ext("KEY_SHARE", 29)>>,
                        <<Ext("PRE_SHARED_KEY", 0)>>}}

\* One defect each: of the fixed part, of the session id echo, of the
\* ciphersuite (47 is a TLS 1.2 suite, 4867 a TLS 1.3 suite that was not
\* offered), of the version in supported_versions; and the downgrade magic
\* next to supported_versions.
DefectiveServerHellos ==
    {ServerHelloMsg(hdr, rnd, 4865, <<SupportedVersions13, Ext("KEY_SHARE", 29)>>) :
         hdr \in {"truncated", "bad_version", "bad_compression"},
         rnd \in {"random", "hrr_magic"}}
    \cup {[ServerHelloMsg("ok", rnd, 4865,
                          <<SupportedVersions13, Ext("KEY_SHARE", g)>>)
               EXCEPT !.legacy_session_id_echo = echo] :
              rnd \in {"random", "hrr_magic"}, g \in {23, 29},
              echo \in WrongSessionIdEchoes(ssl.id)}
    \cup {ServerHelloMsg("ok", rnd, cs, <<SupportedVersions13, Ext("KEY_SHARE", 29)>>) :
              rnd \in {"random", "hrr_magic"}, cs \in {47, 4867}}
    \cup {ServerHelloMsg("ok", rnd, 4865,
                         <<Ext("SUPPORTED_VERSIONS", MBEDTLS_SSL_VERSION_TLS1_2),
                           Ext("KEY_SHARE", 29)>>) :
              rnd \in {"random", "hrr_magic"}}
    \cup {ServerHelloMsg("ok", rnd, 4865, <<SupportedVersions13, Ext("KEY_SHARE", g)>>) :
              rnd \in {"downgrade_00", "downgrade_01"}, g \in {23, 29}}

\* Messages without supported_versions: what a TLS 1.2 server sends.
Tls12ServerHellos ==
    {ServerHelloMsg(hdr, rnd, 47, exts) :
         hdr \in {"ok", "truncated"},
         rnd \in {"random", "hrr_magic", "downgrade_00", "downgrade_01"},
         exts \in {<<>>, <<Ext("KEY_SHARE", 29)>>}}

ServerHellos ==
    WellFormedServerHellos \cup DefectiveServerHellos \cup Tls12ServerHellos

\* The messages on which the failure of an external call is explored.
PlainServerHellos ==
    {ServerHelloMsg("ok", rnd, 4865, <<SupportedVersions13>> \o exts) :
         rnd \in {"random", "hrr_magic"},
         exts \in {<<Ext("KEY_SHARE", 23)>>, <<Ext("KEY_SHARE", 29)>>,
                   <<Ext("PRE_SHARED_KEY", 0)>>, <<Ext("COOKIE", <<1, 2>>)>>,
                   <<Ext("COOKIE", <<>>)>>,
                   <<Ext("COOKIE", <<3>>), Ext("KEY_SHARE", 29)>>}}
    \cup {ServerHelloMsg("ok", "random", 47, <<>>)}

ServerHelloFailures ==
    {"fetch_handshake_msg", "psa_destroy_key", "read_public_ecdhe_share",
     "calloc", "key_schedule_stage_early", "compute_handshake_transform",
     "reset_transcript_for_hrr"}

EncryptedExtensionsMsg(hdr, exts) ==
    [type |-> "encrypted_extensions", hdr |-> hdr, exts |-> exts]

\* ALPN carries the id of a protocol (1 is the one the client may offer),
\* early_data the length of its data, which must be 0.
EncryptedExtensionsMsgs ==
    {EncryptedExtensionsMsg("ok", exts) :
         exts \in {<<>>, <<Ext("EARLY_DATA", 0)>>, <<Ext("EARLY_DATA", 1)>>,
                   <<Ext("ALPN", 1)>>, <<Ext("ALPN", 2)>>,
                   <<Ext("KEY_SHARE", 29)>>,
                   <<Ext("SERVERNAME", 0), Ext("EARLY_DATA", 0)>>}}
    \cup {EncryptedExtensionsMsg(hdr, <<>>) : hdr \in {"truncated", "misaligned"}}

AlpnLists == {<<>>, <<1>>}

CertificateRequestMsg(hdr, context, exts) ==
    [type |-> "certificate_request", hdr |-> hdr,
     context |-> context, exts |-> exts]

\* signature_algorithms carries 1 when its content parses, 0 when not.
CertificateRequestMsgs ==
    {CertificateRequestMsg("ok", <<7>>, <<Ext("SIG_ALG", 1)>>)}
    \cup {CertificateRequestMsg("ok", <<>>, exts) :
              exts \in {<<>>, <<Ext("SIG_ALG", 0)>>, <<Ext("KEY_SHARE", 29)>>,
                        <<Ext("CERT_AUTH", 0), Ext("SIG_ALG", 1)>>}}
    \cup {CertificateRequestMsg(hdr, <<>>, <<Ext("SIG_ALG", 1)>>) :
              hdr \in {"truncated", "misaligned"}}

\* The record read in CERTIFICATE_REQUEST when the server asks for no
\* client certificate: its Certificate message.
ServerCertificateMsg == [type |-> "certificate", hdr |-> "ok"]

\* NewSessionTicket messages: two well-formed tickets, the second allowing
\* early data; an early_data extension of the wrong length, an extension
\* the client does not know and one the message may not carry; and the
\* first ticket cut short in each of its parts.
NewSessionTicketMsg(lifetime, age_add, nonce, ticket, exts, cut) ==
    [type |-> "new_session_ticket", hdr |-> "ok",
     ticket_lifetime |-> lifetime, ticket_age_add |-> ToU32(age_add),
     ticket_nonce |-> nonce, ticket |-> ticket, ticket_len |-> 2,
     exts |-> exts, cut |-> cut]

NewSessionTicketMsgs ==
    {NewSessionTicketMsg(7200, 9, 1, "t2", <<>>, "none"),
     NewSessionTicketMsg(600, 11, 2, "t3", <<Ext("EARLY_DATA", 4)>>, "none")}
    \cup {NewSessionTicketMsg(7200, 9, 1, "t2", exts, "none") :
              exts \in {<<Ext("EARLY_DATA", 0)>>, <<Ext("UNRECOGNIZED", 0)>>,
                        <<Ext("KEY_SHARE", 29)>>}}
    \cup {NewSessionTicketMsg(7200, 9, 1, "t2", <<>>, cut) :
              cut \in {"header", "ticket", "extensions", "extension"}}

\* The tickets that follow the first: a well-formed one, which differs
\* from the tickets above, the first ticket above once more, and one cut
\* short.
LaterNewSessionTicketMsgs ==
    {NewSessionTicketMsg(300, 13, 3, "t4", <<>>, "none"),
     NewSessionTicketMsg(7200, 9, 1, "t2", <<>>, "none"),
     NewSessionTicketMsg(300, 13, 3, "t4", <<>>, "ticket")}

\* mbedtls_time(): the ticket of the model was received at time 100.
Times == {102}

\* What a step leaves in in_msg of the message it read.
Digest(m) ==
    [type |-> m.type, hdr |-> m.hdr,
     rnd |-> IF m.type = "server_hello" THEN m.rnd ELSE "none",
     echo |-> IF m.type = "server_hello" THEN m.legacy_session_id_echo
              ELSE SessionIdEcho(<<>>),
     cipher_suite |-> IF m.type = "server_hello" THEN m.cipher_suite ELSE 0,
     sv |-> m.type = "server_hello"
            /\ ssl_tls13_is_supported_versions_ext_present(m),
     key_shares |-> IF m.type = "server_hello"
                    THEN SelectSeq(m.exts, LAMBDA e : e.type = "KEY_SHARE")
                    ELSE <<>>,
     context |-> IF m.type = "certificate_request" THEN m.context
                 ELSE <<>>]

(***************************************************************************)
(* Configurations and the state after mbedtls_ssl_setup.                   *)
(***************************************************************************)
\* The build (with or without
\* MBEDTLS_SSL_TLS1_3_KEY_EXCHANGE_MODE_EPHEMERAL_ENABLED) and the mask of
\* the modes the configuration enables.
KexConfigs ==
    {[build |-> TRUE, modes |-> k] : k \in (SUBSET KEX_ALL) \ {{}}}
    \cup {[build |-> FALSE, modes |-> k] :
              k \in (SUBSET {"PSK", "PSK_EPHEMERAL"}) \ {{}}}

GroupLists == {<<23, 29>>, <<256, 29>>, <<256>>}

\* The session to resume, if any: whether a ticket is there, its flags,
\* whether the configuration enables early data, and the ciphersuite and
\* the version of the session.
TicketPresets ==
    {[resume |-> t.ticket # "NULL", ticket |-> t.ticket, flags |-> t.flags,
      early_data_enabled |-> t.early_data_enabled,
      ciphersuite |-> 4866, tls_version |-> MBEDTLS_SSL_VERSION_TLS1_3] :
         t \in
    {[ticket |-> "NULL", flags |-> {}, early_data_enabled |-> FALSE],
     [ticket |-> "t1", flags |-> KEX_PSK_ALL, early_data_enabled |-> FALSE],
     [ticket |-> "t1", flags |-> KEX_PSK_ALL \cup {"ALLOW_EARLY_DATA"},
      early_data_enabled |-> TRUE],
     [ticket |-> "t1", flags |-> KEX_PSK_ALL \cup {"ALLOW_EARLY_DATA"},
      early_data_enabled |-> FALSE],
     [ticket |-> "t1", flags |-> KEX_PSK \cup {"ALLOW_EARLY_DATA"},
      early_data_enabled |-> TRUE]}}

\* Sessions that permit early data but for one thing: a ciphersuite the
\* client does not offer, or a session of TLS 1.2.
StaleTicketPresets ==
    {[resume |-> TRUE,
      ticket |-> "t1", flags |-> KEX_PSK_ALL \cup {"ALLOW_EARLY_DATA"},
      early_data_enabled |-> TRUE,
      ciphersuite |-> 4867, tls_version |-> MBEDTLS_SSL_VERSION_TLS1_3],
     [resume |-> TRUE,
      ticket |-> "t1", flags |-> KEX_PSK_ALL \cup {"ALLOW_EARLY_DATA"},
      early_data_enabled |-> TRUE,
      ciphersuite |-> 4866, tls_version |-> MBEDTLS_SSL_VERSION_TLS1_2],
     \* a TLS 1.2 session resumed by its id: no ticket
     [resume |-> TRUE,
      ticket |-> "NULL", flags |-> {},
      early_data_enabled |-> TRUE,
      ciphersuite |-> 49196, tls_version |-> MBEDTLS_SSL_VERSION_TLS1_2]}

Config(k, ccs, gl, psk, t, v) ==
    [tls13_kex_modes |-> k.modes,
     MBEDTLS_SSL_TLS1_3_KEY_EXCHANGE_MODE_EPHEMERAL_ENABLED |-> k.build,
     MBEDTLS_SSL_TLS1_3_COMPATIBILITY_MODE |-> ccs,
     group_list |-> gl,
     has_static_psk |-> psk,
     early_data_enabled |-> t.early_data_enabled,
     min_tls_version |-> v,
     session |-> t]

\* Every combination of key exchange modes, static PSK and session to
\* resume, in the default build (compatibility mode, TLS 1.2 allowed); and
\* every combination of compatibility mode, group list and minimum version
\* for four settings of the modes, with and without a session; the last
\* is the default mask, which enables every mode, in a build without the
\* ephemeral mode; and the sessions that do not permit early data, with
\* every mode and with the pure PSK mode.
Configs ==
    {Config(k, TRUE, <<23, 29>>, psk, t, MBEDTLS_SSL_VERSION_TLS1_2) :
         k \in KexConfigs, psk \in BOOLEAN, t \in TicketPresets}
    \cup
    {Config(k, ccs, gl, TRUE, t, v) :
         k \in {[build |-> TRUE, modes |-> KEX_ALL],
                [build |-> TRUE, modes |-> KEX_EPHEMERAL],
                [build |-> FALSE, modes |-> KEX_PSK],
                [build |-> FALSE, modes |-> KEX_ALL]},
         ccs \in BOOLEAN, gl \in GroupLists,
         t \in {s \in TicketPresets :
                    s.ticket = "NULL" \/ (s.early_data_enabled
                                          /\ s.flags \cap KEX_PSK_ALL = KEX_PSK_ALL)},
         v \in {MBEDTLS_SSL_VERSION_TLS1_2, MBEDTLS_SSL_VERSION_TLS1_3}}
    \cup
    {Config(k, TRUE, <<23, 29>>, FALSE, t, MBEDTLS_SSL_VERSION_TLS1_2) :
         k \in {[build |-> TRUE, modes |-> KEX_ALL],
                [build |-> FALSE, modes |-> KEX_PSK]},
         t \in StaleTicketPresets}

InitialContext(c) ==
    [state |-> "HELLO_REQUEST",
     tls_version |-> MBEDTLS_SSL_VERSION_TLS1_3,
     min_tls_version |-> c.min_tls_version,
     keep_current_message |-> 0,
     alert |-> "none",
     transform_in |-> "none",
     transform_out |-> "none",
     out_msg |-> OutMsg("none", 0, FALSE),
     early_data_status |-> "NOT_SENT",
     alpn_chosen |-> 0,
     \* ssl->handshake
     hello_retry_request_count |-> 0,
     offered_group_id |-> 0,
     ecdh_psa_privkey |-> 0,
     cookie |-> [ptr |-> "NULL"],
     cookie_len |-> 0,
     sent_extensions |-> {},
     received_extensions |-> {},
     key_exchange_mode |-> {},
     ciphersuite_info |-> 0,
     hs_psk |-> "NULL",
     resume |-> c.session.resume,
     client_auth |-> FALSE,
     certificate_request_context |-> <<>>,
     \* ssl->session_negotiate
     id |-> <<>>,
     session_tls_version |-> c.session.tls_version,
     ciphersuite |-> IF c.session.resume THEN c.session.ciphersuite ELSE 0,
     ticket |-> c.session.ticket,
     ticket_len |-> IF c.session.ticket # "NULL" THEN 2 ELSE 0,
     ticket_flags |-> c.session.flags,
     ticket_received |-> 100,
     ticket_lifetime |-> IF c.session.ticket # "NULL" THEN 3600 ELSE 0,
     ticket_age_add |-> ToU32(7),
     resumption_key |-> IF c.session.ticket # "NULL"
                        THEN [ticket_nonce |-> 0, len |-> 48] ELSE "NULL",
     resumption_key_len |-> IF c.session.ticket # "NULL" THEN 48 ELSE 0,
     exported |-> 0,
     \* tickets received after the handshake
     tickets_received |-> 0,
     \* what was written and called
     client_hello |-> <<>>,
     psk_identities |-> <<>>,
     psk_binders |-> <<>>,
     binders_len |-> 0,
     calls |-> <<>>]

Init ==
    /\ conf \in Configs
    /\ ssl = InitialContext(conf)
    /\ ret = OK
    /\ in_msg = NoMsg
    /\ trail = <<"HELLO_REQUEST">>
    /\ hrr = NoMsg
    /\ clock = 0

(***************************************************************************)
(* Actions: one per case of the switch of the step function.  The caller   *)
(* (mbedtls_ssl_handshake_step) calls the TLS 1.3 step function while the  *)
(* last call succeeded and the connection is TLS 1.3; once tls_version is  *)
(* TLS 1.2 it calls the TLS 1.2 client instead.                            *)
(***************************************************************************)
StepInput(m, fail) ==
    [m |-> m, fail |-> fail, now |-> 0, alpn_list |-> <<>>, own_cert |-> FALSE]

Callable(state) ==
    /\ ret \in {OK, "RECEIVED_NEW_SESSION_TICKET"}
    /\ ssl.tls_version = MBEDTLS_SSL_VERSION_TLS1_3
    /\ ssl.state = state

\* What is kept of a HelloRetryRequest: its ciphersuite and its cookie
\* and key_share extensions, if it has them.
HelloRetryRequestSeen(m) ==
    [type |-> "hello_retry_request", cipher_suite |-> m.cipher_suite,
     cookies |-> SelectSeq(m.exts, LAMBDA e : e.type = "COOKIE"),
     key_shares |-> SelectSeq(m.exts, LAMBDA e : e.type = "KEY_SHARE")]

Step(in, digest) ==
    LET r == mbedtls_ssl_tls13_handshake_client_step(ssl, conf, in) IN
    /\ in_msg' = digest
    /\ ssl' = r.s
    /\ ret' = r.ret
    /\ trail' = IF r.s.state # ssl.state THEN Append(trail, r.s.state) ELSE trail
    /\ hrr' = IF /\ ssl.state = "SERVER_HELLO"
                 /\ r.ret = OK
                 /\ in.m.type = "server_hello"
                 /\ in.m.rnd = "hrr_magic"
                 /\ ssl_tls13_is_supported_versions_ext_present(in.m)
              THEN HelloRetryRequestSeen(in.m)
              ELSE hrr
    /\ clock' = IF ssl.state \in {"CLIENT_HELLO", "NEW_SESSION_TICKET"}
                THEN in.now ELSE clock
    /\ UNCHANGED conf

HelloRequest ==
    /\ Callable("HELLO_REQUEST")
    /\ Step(StepInput(NoMsg, "none"), NoMsg)

ClientHello ==
    /\ Callable("CLIENT_HELLO")
    /\ \E now \in Times :
       \E fail \in {"none", "generate_ecdh_key", "set_hs_psk",
                    "create_psk_binder", "finish_handshake_msg"} :
           Step([StepInput(NoMsg, fail) EXCEPT !.now = now], NoMsg)

ServerHello ==
    /\ Callable("SERVER_HELLO")
    /\ \/ \E m \in ServerHellos : Step(StepInput(m, "none"), Digest(m))
       \/ \E m \in PlainServerHellos : \E fail \in ServerHelloFailures :
              Step(StepInput(m, fail),
                   IF fail = "fetch_handshake_msg" THEN NoMsg ELSE Digest(m))

EncryptedExtensions ==
    /\ Callable("ENCRYPTED_EXTENSIONS")
    /\ \/ \E m \in EncryptedExtensionsMsgs : \E alpn_list \in AlpnLists :
              Step([StepInput(m, "none") EXCEPT !.alpn_list = alpn_list],
                   Digest(m))
       \/ Step(StepInput(NoMsg, "fetch_handshake_msg"), NoMsg)

CertificateRequest ==
    /\ Callable("CERTIFICATE_REQUEST")
    /\ \/ \E m \in CertificateRequestMsgs \cup {ServerCertificateMsg} :
              Step(StepInput(m, "none"), Digest(m))
       \/ \E fail \in {"read_record", "fetch_handshake_msg", "calloc"} :
              Step(StepInput(CertificateRequestMsg("ok", <<7>>, <<Ext("SIG_ALG", 1)>>),
                             fail),
                   IF fail = "calloc"
                   THEN Digest(CertificateRequestMsg("ok", <<7>>, <<Ext("SIG_ALG", 1)>>))
                   ELSE NoMsg)

ServerCertificate ==
    /\ Callable("SERVER_CERTIFICATE")
    /\ \E fail \in {"none", "process_certificate"} :
           Step(StepInput(NoMsg, fail), NoMsg)

CertificateVerify ==
    /\ Callable("CERTIFICATE_VERIFY")
    /\ \E fail \in {"none", "process_certificate_verify"} :
           Step(StepInput(NoMsg, fail), NoMsg)

ServerFinished ==
    /\ Callable("SERVER_FINISHED")
    /\ \E fail \in {"none", "process_finished_message",
                    "compute_application_transform"} :
           Step(StepInput(NoMsg, fail), NoMsg)

EndOfEarlyData ==
    /\ Callable("END_OF_EARLY_DATA")
    /\ \E fail \in {"none", "start_handshake_msg", "finish_handshake_msg"} :
           Step(StepInput(NoMsg, fail), NoMsg)

ClientCertificate ==
    /\ Callable("CLIENT_CERTIFICATE")
    /\ \E own_cert \in BOOLEAN : \E fail \in {"none", "write_certificate"} :
           Step([StepInput(NoMsg, fail) EXCEPT !.own_cert = own_cert], NoMsg)

ClientCertificateVerify ==
    /\ Callable("CLIENT_CERTIFICATE_VERIFY")
    /\ \E fail \in {"none", "write_certificate_verify"} :
           Step(StepInput(NoMsg, fail), NoMsg)

ClientFinished ==
    /\ Callable("CLIENT_FINISHED")
    /\ \E fail \in {"none", "write_finished_message",
                    "compute_resumption_master_secret"} :
           Step(StepInput(NoMsg, fail), NoMsg)

FlushBuffers ==
    /\ Callable("FLUSH_BUFFERS")
    /\ Step(StepInput(NoMsg, "none"), NoMsg)

HandshakeWrapup ==
    /\ Callable("HANDSHAKE_WRAPUP")
    /\ Step(StepInput(NoMsg, "none"), NoMsg)

ClientCcsBefore2ndClientHello ==
    /\ Callable("CLIENT_CCS_BEFORE_2ND_CLIENT_HELLO")
    /\ \E fail \in {"none", "write_change_cipher_spec"} :
           Step(StepInput(NoMsg, fail), NoMsg)

ClientCcsAfterServerFinished ==
    /\ Callable("CLIENT_CCS_AFTER_SERVER_FINISHED")
    /\ \E fail \in {"none", "write_change_cipher_spec"} :
           Step(StepInput(NoMsg, fail), NoMsg)

\* After the handshake the message layer, on reading a NewSessionTicket,
\* moves the client to NEW_SESSION_TICKET for the next step to process it.
NewSessionTicketArrival ==
    /\ Callable("HANDSHAKE_OVER")
    /\ ssl.tickets_received < MaxTickets
    /\ ssl' = mbedtls_ssl_handshake_set_state(
                  [ssl EXCEPT !.tickets_received = @ + 1],
                  "NEW_SESSION_TICKET")
    /\ trail' = Append(trail, "NEW_SESSION_TICKET")
    /\ UNCHANGED <<conf, ret, in_msg, hrr, clock>>

NewSessionTicket ==
    /\ Callable("NEW_SESSION_TICKET")
    /\ \E now \in Times :
       \/ \E m \in IF ssl.tickets_received = 1 THEN NewSessionTicketMsgs
                    ELSE LaterNewSessionTicketMsgs :
              Step([StepInput(m, "none") EXCEPT !.now = now], Digest(m))
       \/ \E fail \in IF ssl.tickets_received = 1
                       THEN {"fetch_handshake_msg", "calloc", "hkdf_expand_label"}
                       ELSE {"hkdf_expand_label"} :
              Step([StepInput(NewSessionTicketMsg(7200, 9, 1, "t2", <<>>, "none"),
                              fail) EXCEPT !.now = now],
                   IF fail = "fetch_handshake_msg" THEN NoMsg
                   ELSE Digest(NewSessionTicketMsg(7200, 9, 1, "t2", <<>>,
                                                   "none")))

\* mbedtls_ssl_get_session (ssl_tls.c): the caller that was signalled a
\* ticket exports the session to keep it, which marks the session exported;
\* a session can be exported once.
GetSession ==
    /\ Callable("HANDSHAKE_OVER")
    /\ ret = "RECEIVED_NEW_SESSION_TICKET"
    /\ ssl.exported = 0
    /\ ssl' = [ssl EXCEPT !.exported = 1]
    /\ UNCHANGED <<conf, ret, in_msg, trail, hrr, clock>>

\* The default case: the step function is called in a state that is not a
\* state of the TLS 1.3 client handshake.
InvalidState ==
    /\ Callable("HANDSHAKE_OVER")
    /\ Step(StepInput(NoMsg, "none"), NoMsg)

Next ==
    \/ HelloRequest
    \/ ClientHello
    \/ ServerHello
    \/ EncryptedExtensions
    \/ CertificateRequest
    \/ ServerCertificate
    \/ CertificateVerify
    \/ ServerFinished
    \/ EndOfEarlyData
    \/ ClientCertificate
    \/ ClientCertificateVerify
    \/ ClientFinished
    \/ FlushBuffers
    \/ HandshakeWrapup
    \/ ClientCcsBefore2ndClientHello
    \/ ClientCcsAfterServerFinished
    \/ NewSessionTicketArrival
    \/ NewSessionTicket
    \/ GetSession
    \/ InvalidState

Spec == Init /\ [][Next]_vars

(***************************************************************************)
(* The handshake under fairness: mbedtls_ssl_handshake calls the step      *)
(* function again as long as the last call succeeded and the handshake is  *)
(* not over, and the peer sends every message the client waits for.        *)
(***************************************************************************)
HandshakeStep ==
    \/ HelloRequest
    \/ ClientHello
    \/ ServerHello
    \/ EncryptedExtensions
    \/ CertificateRequest
    \/ ServerCertificate
    \/ CertificateVerify
    \/ ServerFinished
    \/ EndOfEarlyData
    \/ ClientCertificate
    \/ ClientCertificateVerify
    \/ ClientFinished
    \/ FlushBuffers
    \/ HandshakeWrapup
    \/ ClientCcsBefore2ndClientHello
    \/ ClientCcsAfterServerFinished

SpecHandshake == Init /\ [][Next]_vars /\ WF_vars(HandshakeStep)

(***************************************************************************)
(* The ticket age.  The first ClientHello of a client that resumes a       *)
(* session, for tickets received at several times with several values of   *)
(* ticket_age_add and a clock that reads before, at and after the time the *)
(* ticket was received, up to an age whose milliseconds pass 2^32.         *)
(***************************************************************************)
TicketTimes == {100, 5000}

TicketAgeAdds == {ToU32(0), ToU32(7), U32(65535, 65535), U32(32768, 1)}

ClockTimes == {0, 99, 100, 101, 102, 4999, 5001, 4295068, 2147483000}

InitTicketAge ==
    /\ conf \in {c \in Configs : /\ c.session.ticket # "NULL"
                                 /\ c.group_list = <<23, 29>>
                                 /\ c.min_tls_version = MBEDTLS_SSL_VERSION_TLS1_2
                                 /\ c.MBEDTLS_SSL_TLS1_3_COMPATIBILITY_MODE}
    /\ \E ticket_received \in TicketTimes : \E ticket_age_add \in TicketAgeAdds :
           ssl = [InitialContext(conf) EXCEPT
                      !.ticket_received = ticket_received,
                      !.ticket_age_add = ticket_age_add]
    /\ ret = OK
    /\ in_msg = NoMsg
    /\ trail = <<"HELLO_REQUEST">>
    /\ hrr = NoMsg
    /\ clock = 0

ClientHelloAtAnyTime ==
    /\ Callable("CLIENT_HELLO")
    /\ \E now \in ClockTimes :
           Step([StepInput(NoMsg, "none") EXCEPT !.now = now], NoMsg)

NextTicketAge ==
    \/ HelloRequest
    \/ ClientHelloAtAnyTime

SpecTicketAge == InitTicketAge /\ [][NextTicketAge]_vars

(***************************************************************************)
(* Properties.                                                             *)
(***************************************************************************)
\* C1: at most one HelloRetryRequest is accepted in a connection; a second
\* one (a message with supported_versions and the HelloRetryRequest magic
\* in Random, read in SERVER_HELLO when one was already accepted) makes
\* the step fail with UNEXPECTED_MESSAGE, pends the unexpected_message
\* alert and leaves the client in SERVER_HELLO with the count unchanged.
C1_AtMostOneHelloRetryRequest ==
    /\ [](ssl.hello_retry_request_count <= 1)
    /\ [][(/\ ssl.state = "SERVER_HELLO"
           /\ ssl.hello_retry_request_count > 0
           /\ in_msg'.type = "server_hello"
           /\ in_msg'.hdr # "truncated"
           /\ in_msg'.sv
           /\ in_msg'.rnd = "hrr_magic")
          => (/\ ret' = "UNEXPECTED_MESSAGE"
              /\ ssl'.alert = "UNEXPECTED_MESSAGE"
              /\ ssl'.state = "SERVER_HELLO"
              /\ ssl'.hello_retry_request_count
                     = ssl.hello_retry_request_count)]_vars

\* A second HelloRetryRequest was refused.
C1_SecondHrrRefused ==
    /\ ssl.state = "SERVER_HELLO"
    /\ ssl.hello_retry_request_count = 1
    /\ in_msg.type = "server_hello" /\ in_msg.sv /\ in_msg.rnd = "hrr_magic"
    /\ ret = "UNEXPECTED_MESSAGE"
    /\ ssl.alert = "UNEXPECTED_MESSAGE"

\* C2: whenever a HelloRetryRequest is accepted (the SERVER_HELLO step
\* succeeds and counts it), offered_group_id after the step differs from
\* the group the first ClientHello offered and is in the group_list of the
\* configuration.
C2_HrrChangesOfferedGroup ==
    [][(/\ ssl.state = "SERVER_HELLO"
        /\ ret' = OK
        /\ ssl'.hello_retry_request_count > ssl.hello_retry_request_count)
       => (/\ ssl'.offered_group_id # ssl.offered_group_id
           /\ \E i \in 1..Len(conf.group_list) :
                  conf.group_list[i] = ssl'.offered_group_id)]_vars

\* C3: a ServerHello without supported_versions is refused with
\* ILLEGAL_PARAMETER and the illegal_parameter alert, and TLS 1.2 is not
\* negotiated, when its Random ends in the downgrade marker or when the
\* minimum version of the client is above TLS 1.2.
C3_DowngradeProtection ==
    [][(/\ ssl.state = "SERVER_HELLO"
        /\ in_msg'.type = "server_hello"
        /\ in_msg'.hdr # "truncated"
        /\ ~in_msg'.sv
        /\ \/ in_msg'.rnd \in {"downgrade_00", "downgrade_01"}
           \/ ssl.min_tls_version > MBEDTLS_SSL_VERSION_TLS1_2)
       => (/\ ret' = "ILLEGAL_PARAMETER"
           /\ ssl'.alert = "ILLEGAL_PARAMETER"
           /\ ssl'.tls_version = MBEDTLS_SSL_VERSION_TLS1_3
           /\ ssl'.state = "SERVER_HELLO")]_vars

\* A client that allows TLS 1.2 refused a ServerHello with the marker.
C3_DowngradeRefused ==
    /\ ssl.state = "SERVER_HELLO"
    /\ conf.min_tls_version = MBEDTLS_SSL_VERSION_TLS1_2
    /\ in_msg.type = "server_hello" /\ ~in_msg.sv
    /\ in_msg.rnd \in {"downgrade_00", "downgrade_01"}
    /\ ret = "ILLEGAL_PARAMETER"
    /\ ssl.alert = "ILLEGAL_PARAMETER"
    /\ ssl.tls_version = MBEDTLS_SSL_VERSION_TLS1_3

\* C4: after a ServerHello is parsed, key_exchange_mode is psk when only
\* pre_shared_key was received, ephemeral when only key_share was,
\* psk_ephemeral when both were, whatever it was before; when neither was
\* received the step fails with HANDSHAKE_FAILURE, pends the
\* handshake_failure alert and stays in SERVER_HELLO.
C4_KeyExchangeModeInference ==
    Callable("SERVER_HELLO") =>
    \A m \in ServerHellos :
    \A fail \in {"none", "key_schedule_stage_early",
                 "compute_handshake_transform"} :
        LET fetched == mbedtls_ssl_tls13_fetch_handshake_msg(ssl, fail).s
            pre == ssl_tls13_preprocess_server_hello(fetched, conf, m, fail)
            parsed == ssl_tls13_parse_server_hello(pre.s, conf, m, FALSE, fail)
            rx == parsed.s.received_extensions
            step == mbedtls_ssl_tls13_handshake_client_step(
                        ssl, conf, StepInput(m, fail))
        IN (pre.ret = "SSL_SERVER_HELLO" /\ parsed.ret = OK) =>
           /\ ("PRE_SHARED_KEY" \in rx /\ "KEY_SHARE" \notin rx)
                  => step.s.key_exchange_mode = KEX_PSK
           /\ ("PRE_SHARED_KEY" \notin rx /\ "KEY_SHARE" \in rx)
                  => step.s.key_exchange_mode = KEX_EPHEMERAL
           /\ ("PRE_SHARED_KEY" \in rx /\ "KEY_SHARE" \in rx)
                  => step.s.key_exchange_mode = KEX_PSK_EPHEMERAL
           /\ ("PRE_SHARED_KEY" \notin rx /\ "KEY_SHARE" \notin rx)
                  => /\ step.ret = "HANDSHAKE_FAILURE"
                     /\ step.s.alert = "HANDSHAKE_FAILURE"
                     /\ step.s.state = "SERVER_HELLO"

\* A ServerHello with both extensions was accepted, by a client whose
\* ClientHello had left the mode at psk or psk_ephemeral.
C4_BothExtensionsReceived ==
    /\ ssl.state = "ENCRYPTED_EXTENSIONS"
    /\ {"PRE_SHARED_KEY", "KEY_SHARE"} \subseteq ssl.received_extensions
    /\ ssl.key_exchange_mode = KEX_PSK_EPHEMERAL
    /\ ssl.psk_identities # <<>>

\* C5: ENCRYPTED_EXTENSIONS is entered only with a key exchange mode that
\* the configuration enables; a ServerHello that stands for a mode that is
\* not enabled makes the step fail with HANDSHAKE_FAILURE and the
\* handshake_failure alert, without an inbound transform being installed.
C5_ModeEnabledByConfiguration ==
    /\ ssl.state = "ENCRYPTED_EXTENSIONS"
           => /\ ssl.key_exchange_mode # {}
              /\ ssl.key_exchange_mode \subseteq conf.tls13_kex_modes
    /\ Callable("SERVER_HELLO") =>
       \A m \in ServerHellos :
           LET fetched == mbedtls_ssl_tls13_fetch_handshake_msg(ssl, "none").s
               pre == ssl_tls13_preprocess_server_hello(fetched, conf, m, "none")
               parsed == ssl_tls13_parse_server_hello(pre.s, conf, m, FALSE,
                                                      "none")
               mode == InferKeyExchangeMode(parsed.s.received_extensions)
               step == mbedtls_ssl_tls13_handshake_client_step(
                           ssl, conf, StepInput(m, "none"))
           IN (/\ pre.ret = "SSL_SERVER_HELLO"
               /\ parsed.ret = OK
               /\ mode # {}
               /\ mode \cap conf.tls13_kex_modes = {}) =>
              /\ step.ret = "HANDSHAKE_FAILURE"
              /\ step.s.alert = "HANDSHAKE_FAILURE"
              /\ step.s.state = "SERVER_HELLO"
              /\ step.s.transform_in = ssl.transform_in
              /\ \A i \in 1..Len(step.s.calls) :
                     step.s.calls[i] # "set_inbound_transform"

\* A ServerHello for a mode that is not enabled was refused.
C5_DisabledModeRefused ==
    /\ ssl.state = "SERVER_HELLO"
    /\ in_msg.type = "server_hello"
    /\ ssl.key_exchange_mode = InferKeyExchangeMode(ssl.received_extensions)
    /\ ssl.key_exchange_mode # {}
    /\ ssl.key_exchange_mode \cap conf.tls13_kex_modes = {}
    /\ ret = "HANDSHAKE_FAILURE"
    /\ ssl.alert = "HANDSHAKE_FAILURE"
    /\ ssl.transform_in = "none"

\* C6: the step that enters ENCRYPTED_EXTENSIONS has run the early stage
\* of the key schedule, computed the handshake transform and installed it
\* as the inbound transform, in that order, so that the inbound transform
\* is the handshake transform when the state is entered.
C6_InboundHandshakeTransformInstalled ==
    [][(ssl.state = "SERVER_HELLO" /\ ssl'.state = "ENCRYPTED_EXTENSIONS")
       => /\ ssl'.transform_in = "handshake"
          /\ Len(ssl'.calls) >= Len(ssl.calls) + 3
          /\ SubSeq(ssl'.calls, 1, Len(ssl.calls)) = ssl.calls
          /\ SubSeq(ssl'.calls, Len(ssl'.calls) - 2, Len(ssl'.calls))
                 = <<"key_schedule_stage_early",
                     "compute_handshake_transform",
                     "set_inbound_transform">>]_vars

\* ENCRYPTED_EXTENSIONS was entered.
C6_EncryptedExtensionsEntered ==
    /\ ssl.state = "ENCRYPTED_EXTENSIONS"
    /\ ret = OK
    /\ ssl.transform_in = "handshake"
    /\ in_msg.type = "server_hello"

\* C7, as the specification states it: every state change made by the step
\* function is one of the handshake's (the arrival of a ticket, which the
\* message layer makes, is none of the step function's).
C7_OnlyHandshakeTransitions ==
    [][(ssl'.state # ssl.state
        /\ ssl'.tickets_received = ssl.tickets_received)
       => <<ssl.state, ssl'.state>> \in
          {<<"HELLO_REQUEST", "CLIENT_HELLO">>,
           <<"CLIENT_HELLO", "SERVER_HELLO">>,
           <<"SERVER_HELLO", "ENCRYPTED_EXTENSIONS">>,
           <<"SERVER_HELLO", "CLIENT_CCS_BEFORE_2ND_CLIENT_HELLO">>,
           <<"SERVER_HELLO", "CLIENT_HELLO">>,
           <<"CLIENT_CCS_BEFORE_2ND_CLIENT_HELLO", "CLIENT_HELLO">>,
           <<"ENCRYPTED_EXTENSIONS", "SERVER_FINISHED">>,
           <<"ENCRYPTED_EXTENSIONS", "CERTIFICATE_REQUEST">>,
           <<"CERTIFICATE_REQUEST", "SERVER_CERTIFICATE">>,
           <<"SERVER_CERTIFICATE", "CERTIFICATE_VERIFY">>,
           <<"CERTIFICATE_VERIFY", "SERVER_FINISHED">>,
           <<"SERVER_FINISHED", "END_OF_EARLY_DATA">>,
           <<"SERVER_FINISHED", "CLIENT_CCS_AFTER_SERVER_FINISHED">>,
           <<"SERVER_FINISHED", "CLIENT_CERTIFICATE">>,
           <<"END_OF_EARLY_DATA", "CLIENT_CERTIFICATE">>,
           <<"CLIENT_CCS_AFTER_SERVER_FINISHED", "CLIENT_CERTIFICATE">>,
           <<"CLIENT_CERTIFICATE", "CLIENT_CERTIFICATE_VERIFY">>,
           <<"CLIENT_CERTIFICATE", "CLIENT_FINISHED">>,
           <<"CLIENT_CERTIFICATE_VERIFY", "CLIENT_FINISHED">>,
           <<"CLIENT_FINISHED", "FLUSH_BUFFERS">>,
           <<"FLUSH_BUFFERS", "HANDSHAKE_WRAPUP">>,
           <<"HANDSHAKE_WRAPUP", "HANDSHAKE_OVER">>}]_vars

\* C7, amended: every state change made by the step function is one of the
\* handshake's or the return from NEW_SESSION_TICKET to HANDSHAKE_OVER; the
\* states the client went through are the current state's history, in
\* which CLIENT_HELLO and SERVER_HELLO occur twice only after a
\* HelloRetryRequest, HANDSHAKE_OVER and NEW_SESSION_TICKET recur with the
\* tickets received, and no other state occurs twice.
C7_StateTable ==
    /\ [][(ssl'.state # ssl.state
           /\ ssl'.tickets_received = ssl.tickets_received)
          => <<ssl.state, ssl'.state>> \in
             {<<"HELLO_REQUEST", "CLIENT_HELLO">>,
              <<"CLIENT_HELLO", "SERVER_HELLO">>,
              <<"SERVER_HELLO", "ENCRYPTED_EXTENSIONS">>,
              <<"SERVER_HELLO", "CLIENT_CCS_BEFORE_2ND_CLIENT_HELLO">>,
              <<"SERVER_HELLO", "CLIENT_HELLO">>,
              <<"CLIENT_CCS_BEFORE_2ND_CLIENT_HELLO", "CLIENT_HELLO">>,
              <<"ENCRYPTED_EXTENSIONS", "SERVER_FINISHED">>,
              <<"ENCRYPTED_EXTENSIONS", "CERTIFICATE_REQUEST">>,
              <<"CERTIFICATE_REQUEST", "SERVER_CERTIFICATE">>,
              <<"SERVER_CERTIFICATE", "CERTIFICATE_VERIFY">>,
              <<"CERTIFICATE_VERIFY", "SERVER_FINISHED">>,
              <<"SERVER_FINISHED", "END_OF_EARLY_DATA">>,
              <<"SERVER_FINISHED", "CLIENT_CCS_AFTER_SERVER_FINISHED">>,
              <<"SERVER_FINISHED", "CLIENT_CERTIFICATE">>,
              <<"END_OF_EARLY_DATA", "CLIENT_CERTIFICATE">>,
              <<"CLIENT_CCS_AFTER_SERVER_FINISHED", "CLIENT_CERTIFICATE">>,
              <<"CLIENT_CERTIFICATE", "CLIENT_CERTIFICATE_VERIFY">>,
              <<"CLIENT_CERTIFICATE", "CLIENT_FINISHED">>,
              <<"CLIENT_CERTIFICATE_VERIFY", "CLIENT_FINISHED">>,
              <<"CLIENT_FINISHED", "FLUSH_BUFFERS">>,
              <<"FLUSH_BUFFERS", "HANDSHAKE_WRAPUP">>,
              <<"HANDSHAKE_WRAPUP", "HANDSHAKE_OVER">>,
              <<"NEW_SESSION_TICKET", "HANDSHAKE_OVER">>}]_vars
    /\ [](/\ trail[Len(trail)] = ssl.state
          /\ \A i, j \in 1..Len(trail) :
                 (i < j /\ trail[i] = trail[j]) =>
                     \/ /\ trail[i] \in {"CLIENT_HELLO", "SERVER_HELLO"}
                        /\ ssl.hello_retry_request_count = 1
                        /\ \A k \in 1..Len(trail) :
                               trail[k] = trail[i] => k \in {i, j}
                     \/ /\ trail[i] \in {"HANDSHAKE_OVER", "NEW_SESSION_TICKET"}
                        /\ ssl.tickets_received > 0)

\* A handshake with a HelloRetryRequest came to its end and a ticket that
\* arrived after it was processed.
C7_TicketAfterHandshakeWithHrr ==
    /\ ssl.state = "HANDSHAKE_OVER"
    /\ ret = "RECEIVED_NEW_SESSION_TICKET"
    /\ ssl.hello_retry_request_count = 1
    /\ Len(trail) >= 2
    /\ trail[Len(trail) - 1] = "NEW_SESSION_TICKET"

C9_SuccessChangesState ==
    [][ret' = OK => ssl'.state # ssl.state]_vars

\* C9, amended: a step that returns success has changed the state, but for
\* the SERVER_HELLO step that hands the connection to TLS 1.2, which
\* returns success in SERVER_HELLO with tls_version TLS 1.2 and the
\* ServerHello kept.
C9_SuccessChangesStateButTls12 ==
    [][ret' = OK
       => \/ ssl'.state # ssl.state
          \/ /\ ssl.state = "SERVER_HELLO"
             /\ ssl.tls_version = MBEDTLS_SSL_VERSION_TLS1_3
             /\ ssl'.tls_version = MBEDTLS_SSL_VERSION_TLS1_2
             /\ ssl'.keep_current_message = 1]_vars

\* The connection was handed to TLS 1.2 by a step that succeeded.
C9_HandedToTls12InServerHello ==
    /\ ssl.state = "SERVER_HELLO"
    /\ ret = OK
    /\ ssl.tls_version = MBEDTLS_SSL_VERSION_TLS1_2
    /\ ssl.keep_current_message = 1

\* C10, as the specification states it: a ServerHello without
\* supported_versions and without the downgrade marker, read by a client
\* whose minimum version allows TLS 1.2, sets tls_version to TLS 1.2 and
\* keep_current_message to 1, returns success, and leaves
\* hello_retry_request_count, received_extensions, key_exchange_mode and
\* the inbound transform as they were.
C10_Tls12HandoffSucceeds ==
    [][(/\ ssl.state = "SERVER_HELLO"
        /\ in_msg'.type = "server_hello"
        /\ in_msg'.hdr # "truncated"
        /\ ~in_msg'.sv
        /\ in_msg'.rnd \notin {"downgrade_00", "downgrade_01"}
        /\ ssl.min_tls_version <= MBEDTLS_SSL_VERSION_TLS1_2)
       => (/\ ssl'.tls_version = MBEDTLS_SSL_VERSION_TLS1_2
           /\ ssl'.keep_current_message = 1
           /\ ret' = OK
           /\ ssl'.hello_retry_request_count = ssl.hello_retry_request_count
           /\ ssl'.received_extensions = ssl.received_extensions
           /\ ssl'.key_exchange_mode = ssl.key_exchange_mode
           /\ ssl'.transform_in = ssl.transform_in)]_vars

\* C10, amended: such a ServerHello sets tls_version to TLS 1.2 and
\* keep_current_message to 1 and leaves hello_retry_request_count,
\* received_extensions, key_exchange_mode, the inbound transform and the
\* state as they were; the step returns success unless an ephemeral mode
\* is enabled and the private key of the key share offered cannot be
\* destroyed, and then it returns that error; on success with an ephemeral
\* mode enabled the key is destroyed.
C10_Tls12Handoff ==
    [][(/\ ssl.state = "SERVER_HELLO"
        /\ in_msg'.type = "server_hello"
        /\ in_msg'.hdr # "truncated"
        /\ ~in_msg'.sv
        /\ in_msg'.rnd \notin {"downgrade_00", "downgrade_01"}
        /\ ssl.min_tls_version <= MBEDTLS_SSL_VERSION_TLS1_2)
       => (/\ ssl'.tls_version = MBEDTLS_SSL_VERSION_TLS1_2
           /\ ssl'.keep_current_message = 1
           /\ ssl'.hello_retry_request_count = ssl.hello_retry_request_count
           /\ ssl'.received_extensions = ssl.received_extensions
           /\ ssl'.key_exchange_mode = ssl.key_exchange_mode
           /\ ssl'.transform_in = ssl.transform_in
           /\ ssl'.state = ssl.state
           /\ \/ ret' = OK
              \/ /\ ret' = "PSA_DESTROY_KEY_FAILED"
                 /\ mbedtls_ssl_conf_tls13_some_ephemeral_enabled(conf)
                 /\ ssl'.ecdh_psa_privkey = ssl.ecdh_psa_privkey
           /\ (ret' = OK /\ mbedtls_ssl_conf_tls13_some_ephemeral_enabled(conf))
                  => ssl'.ecdh_psa_privkey = 0)]_vars

\* TLS 1.2 was negotiated but the key of the key share could not be
\* destroyed.
C10_Tls12HandoffKeyNotDestroyed ==
    /\ ssl.state = "SERVER_HELLO"
    /\ in_msg.type = "server_hello" /\ ~in_msg.sv /\ in_msg.rnd = "random"
    /\ ssl.tls_version = MBEDTLS_SSL_VERSION_TLS1_2
    /\ ssl.keep_current_message = 1
    /\ ret = "PSA_DESTROY_KEY_FAILED"
    /\ ssl.ecdh_psa_privkey # 0

\* C11: a ServerHello or HelloRetryRequest is accepted only if its
\* legacy_session_id_echo has the length and the bytes of the session id of
\* the session under negotiation, which the ClientHello carried; with any
\* other echo the step fails with ILLEGAL_PARAMETER, the illegal_parameter
\* alert is pended and the client stays in SERVER_HELLO.  The messages are
\* those the classifier takes for a TLS 1.3 ServerHello or HelloRetryRequest
\* (supported_versions is there; a HelloRetryRequest is the first and an
\* ephemeral mode is enabled) and whose legacy_version is right, so that
\* the echo is the next field looked at.
C11_SessionIdEcho ==
    [][(/\ ssl.state = "SERVER_HELLO"
        /\ in_msg'.type = "server_hello"
        /\ in_msg'.hdr \notin {"truncated", "bad_version"}
        /\ in_msg'.sv
        /\ in_msg'.rnd = "hrr_magic"
               => /\ ssl.hello_retry_request_count = 0
                  /\ conf.tls13_kex_modes \cap KEX_EPHEMERAL_ALL # {})
       => /\ ssl'.id = ssl.id
          /\ (ret' = OK /\ ssl'.state # ssl.state)
                 => /\ in_msg'.echo.len = Len(ssl.id)
                    /\ in_msg'.echo.bytes = ssl.id
          /\ (in_msg'.echo.len # Len(ssl.id) \/ in_msg'.echo.bytes # ssl.id)
                 => /\ ret' = "ILLEGAL_PARAMETER"
                    /\ ssl'.alert = "ILLEGAL_PARAMETER"
                    /\ ssl'.state = "SERVER_HELLO"]_vars

\* An echo of the right length with one byte changed was refused.
C11_ChangedByteRefused ==
    /\ ssl.state = "SERVER_HELLO"
    /\ in_msg.type = "server_hello" /\ in_msg.hdr = "ok" /\ in_msg.sv
    /\ ssl.id = CompatSessionId
    /\ in_msg.echo.len = Len(ssl.id)
    /\ in_msg.echo.bytes # ssl.id
    /\ ret = "ILLEGAL_PARAMETER"
    /\ ssl.alert = "ILLEGAL_PARAMETER"

\* C12: after a HelloRetryRequest was accepted, a ServerHello (a message
\* the classifier takes for a TLS 1.3 ServerHello, with the right
\* legacy_version and session id echo) whose cipher_suite is not the one of
\* the HelloRetryRequest makes the step fail with ILLEGAL_PARAMETER and the
\* illegal_parameter alert, also when that ciphersuite is valid and was
\* offered; the step that enters ENCRYPTED_EXTENSIONS read the ciphersuite
\* of the HelloRetryRequest, and in ENCRYPTED_EXTENSIONS the negotiated
\* ciphersuite is that one.
C12_CiphersuiteOfHelloRetryRequest ==
    /\ [](ssl.state = "ENCRYPTED_EXTENSIONS" /\ hrr # NoMsg
              => ssl.ciphersuite = hrr.cipher_suite)
    /\ [][(/\ ssl.state = "SERVER_HELLO"
           /\ hrr # NoMsg
           /\ in_msg'.type = "server_hello"
           /\ in_msg'.hdr \notin {"truncated", "bad_version"}
           /\ in_msg'.sv
           /\ in_msg'.rnd # "hrr_magic"
           /\ in_msg'.echo = SessionIdEcho(ssl.id))
          => /\ ssl'.state = "ENCRYPTED_EXTENSIONS"
                    => in_msg'.cipher_suite = hrr.cipher_suite
             /\ in_msg'.cipher_suite # hrr.cipher_suite
                    => /\ ret' = "ILLEGAL_PARAMETER"
                       /\ ssl'.alert = "ILLEGAL_PARAMETER"
                       /\ ssl'.state = "SERVER_HELLO"]_vars

\* After a HelloRetryRequest with one of the offered ciphersuites, a
\* ServerHello with the other one was refused.
C12_OtherOfferedCiphersuiteRefused ==
    /\ ssl.state = "SERVER_HELLO"
    /\ hrr # NoMsg
    /\ in_msg.type = "server_hello" /\ in_msg.hdr = "ok" /\ in_msg.sv
    /\ in_msg.rnd = "random"
    /\ in_msg.cipher_suite \in OfferedCiphersuites
    /\ in_msg.cipher_suite # hrr.cipher_suite
    /\ ret = "ILLEGAL_PARAMETER"
    /\ ssl.alert = "ILLEGAL_PARAMETER"

\* C13: while a ServerHello is awaited, offered_group_id is the group of
\* the key share of the last ClientHello, and the group a HelloRetryRequest
\* selected when one did; a ServerHello is accepted only if the group of
\* its key_share is offered_group_id; and a ServerHello that is sound up to
\* its key_share (right session id echo, a ciphersuite that is offered and
\* is the one of the HelloRetryRequest, key_share next to
\* supported_versions, an ephemeral mode enabled) with another group makes
\* the step fail with HANDSHAKE_FAILURE and the handshake_failure alert,
\* without the share of the server being read.
C13_KeyShareGroup ==
    Callable("SERVER_HELLO") =>
    /\ \A i \in 1..Len(ssl.client_hello) :
           ssl.client_hello[i].type = "KEY_SHARE"
               => ssl.client_hello[i].val = ssl.offered_group_id
    /\ (hrr # NoMsg /\ hrr.key_shares # <<>>)
           => ssl.offered_group_id = hrr.key_shares[1].val
    /\ \A m \in ServerHellos :
           LET step == mbedtls_ssl_tls13_handshake_client_step(
                           ssl, conf, StepInput(m, "none"))
           IN
           /\ step.s.state = "ENCRYPTED_EXTENSIONS"
                  => \A i \in 1..Len(m.exts) :
                         m.exts[i].type = "KEY_SHARE"
                             => m.exts[i].val = ssl.offered_group_id
           /\ (/\ m.hdr = "ok"
               /\ m.rnd # "hrr_magic"
               /\ m.legacy_session_id_echo = SessionIdEcho(ssl.id)
               /\ m.cipher_suite \in OfferedCiphersuites
               /\ hrr # NoMsg => m.cipher_suite = hrr.cipher_suite
               /\ conf.tls13_kex_modes \cap KEX_EPHEMERAL_ALL # {}
               /\ Len(m.exts) >= 2
               /\ m.exts[1] = SupportedVersions13
               /\ m.exts[2].type = "KEY_SHARE"
               /\ m.exts[2].val # ssl.offered_group_id)
                  => /\ step.ret = "HANDSHAKE_FAILURE"
                     /\ step.s.alert = "HANDSHAKE_FAILURE"
                     /\ step.s.state = "SERVER_HELLO"
                     /\ step.s.calls = ssl.calls

\* After a HelloRetryRequest that selected a group, a ServerHello with a
\* key share of another group was refused before the share was read.
C13_OtherGroupRefused ==
    /\ ssl.state = "SERVER_HELLO"
    /\ hrr # NoMsg /\ hrr.key_shares # <<>>
    /\ ssl.offered_group_id = hrr.key_shares[1].val
    /\ "EPHEMERAL" \in conf.tls13_kex_modes
    /\ in_msg.type = "server_hello" /\ in_msg.hdr = "ok" /\ in_msg.sv
    /\ ssl.received_extensions = {"SUPPORTED_VERSIONS", "KEY_SHARE"}
    /\ ret = "HANDSHAKE_FAILURE"
    /\ ssl.alert = "HANDSHAKE_FAILURE"
    /\ \A i \in 1..Len(ssl.calls) : ssl.calls[i] # "read_public_ecdhe_share"

\* C14: while a ServerHello is awaited by a client with a PSK mode enabled,
\* the identities its ClientHello offered are the configured PSKs, the
\* ticket first; a ServerHello is accepted only if the selected_identity of
\* its pre_shared_key is less than the number of configured PSKs, and the
\* PSK of the handshake is then the one offered at that index (the ticket
\* PSK at index 0 when the ticket is offered, the static PSK otherwise); a
\* ServerHello that is sound up to its pre_shared_key (which comes next to
\* supported_versions) with a selected_identity that is not less makes the
\* step fail with ILLEGAL_PARAMETER and the illegal_parameter alert.
C14_SelectedIdentity ==
    Callable("SERVER_HELLO") =>
    LET count == ssl_tls13_get_configured_psk_count(ssl, conf) IN
    /\ conf.tls13_kex_modes \cap KEX_PSK_ALL # {}
           => /\ Len(ssl.psk_identities) = count
              /\ \A i \in 1..count :
                     ssl.psk_identities[i].identity = ssl.ticket
                         <=> (i = 1 /\ ssl_tls13_has_configured_ticket(ssl, conf))
    /\ \A m \in ServerHellos :
           LET step == mbedtls_ssl_tls13_handshake_client_step(
                           ssl, conf, StepInput(m, "none"))
           IN
           /\ step.s.state = "ENCRYPTED_EXTENSIONS"
                  => \A i \in 1..Len(m.exts) :
                         m.exts[i].type = "PRE_SHARED_KEY"
                         => /\ m.exts[i].val < count
                            /\ step.s.hs_psk =
                                   IF ssl.psk_identities[m.exts[i].val + 1].identity
                                          = ssl.ticket
                                   THEN "ticket" ELSE "static"
           /\ (/\ m.hdr = "ok"
               /\ m.rnd # "hrr_magic"
               /\ m.legacy_session_id_echo = SessionIdEcho(ssl.id)
               /\ m.cipher_suite \in OfferedCiphersuites
               /\ hrr # NoMsg => m.cipher_suite = hrr.cipher_suite
               /\ Len(m.exts) >= 2
               /\ m.exts[1] = SupportedVersions13
               /\ m.exts[2].type = "PRE_SHARED_KEY"
               /\ m.exts[2].val >= count)
                  => /\ step.ret = "ILLEGAL_PARAMETER"
                     /\ step.s.alert = "ILLEGAL_PARAMETER"
                     /\ step.s.state = "SERVER_HELLO"
                     /\ step.s.hs_psk = ssl.hs_psk

\* A client that offered its ticket and its static PSK was answered with
\* selected_identity 1, and the handshake goes on with the static PSK.
C14_StaticPskSelectedAtIndexOne ==
    /\ ssl.state = "ENCRYPTED_EXTENSIONS"
    /\ Len(ssl.psk_identities) = 2
    /\ ssl.psk_identities[1].identity = ssl.ticket
    /\ "PRE_SHARED_KEY" \in ssl.received_extensions
    /\ ssl.hs_psk = "static"

\* C15: the cookie extensions of a ClientHello that is written are those
\* of the HelloRetryRequest it answers, with the same bytes: none in the
\* first ClientHello of a handshake, none after a HelloRetryRequest without
\* cookie, the cookie of the HelloRetryRequest otherwise; and a handshake
\* writes at most two ClientHellos, so that the cookie is sent once.
C15_CookieEchoedOnce ==
    /\ [](Cardinality({i \in 1..Len(trail) : trail[i] = "SERVER_HELLO"}) <= 2)
    /\ [][(/\ ssl.state = "CLIENT_HELLO"
           /\ ret' = OK
           /\ ssl'.state = "SERVER_HELLO")
          => SelectSeq(ssl'.client_hello, LAMBDA e : e.type = "COOKIE")
                 = IF hrr = NoMsg THEN <<>> ELSE hrr.cookies]_vars

\* The ClientHello that answers a HelloRetryRequest with a cookie was
\* written, with that cookie.
C15_CookieEchoed ==
    /\ ssl.state = "SERVER_HELLO"
    /\ ret = OK
    /\ hrr # NoMsg
    /\ hrr.cookies # <<>>
    /\ Len(hrr.cookies[1].val) > 0
    /\ \E i \in 1..Len(ssl.client_hello) : ssl.client_hello[i] = hrr.cookies[1]

\* C16: the extensions of every ClientHello follow the fixed order
\* supported_versions, cookie, key_share, early_data,
\* psk_key_exchange_modes, pre_shared_key, each at most once; so a
\* pre_shared_key extension, when there is one, is the last extension and
\* nothing is written after it.
C16_PreSharedKeyLast ==
    LET order == <<"SUPPORTED_VERSIONS", "COOKIE", "KEY_SHARE", "EARLY_DATA",
                   "PSK_KEY_EXCHANGE_MODES", "PRE_SHARED_KEY">>
        ch == ssl.client_hello
    IN /\ \A i \in 1..Len(ch) : \E k \in 1..Len(order) : ch[i].type = order[k]
       /\ \A i \in 1..(Len(ch) - 1) :
              \E k \in 1..(Len(order) - 1) :
                  /\ ch[i].type = order[k]
                  /\ \E l \in (k + 1)..Len(order) : ch[i + 1].type = order[l]
       /\ \A i \in 1..Len(ch) : ch[i].type = "PRE_SHARED_KEY" => i = Len(ch)

\* A ClientHello was written with early_data, psk_key_exchange_modes and
\* pre_shared_key, in the second flight with a cookie as well.
C16_AllExtensionsWritten ==
    /\ ssl.state = "SERVER_HELLO"
    /\ ret = OK
    /\ Len(ssl.client_hello) = 6
    /\ ssl.client_hello[6].type = "PRE_SHARED_KEY"
    /\ {"COOKIE", "EARLY_DATA", "KEY_SHARE"} \subseteq ssl.sent_extensions

\* C17: a server Finished that is processed leads to END_OF_EARLY_DATA
\* exactly when early_data_status is ACCEPTED, and the EndOfEarlyData
\* message is started only in a handshake whose status is ACCEPTED; the
\* outbound transform is not the handshake transform while the client is
\* in END_OF_EARLY_DATA; a successful END_OF_EARLY_DATA step starts the
\* message, finishes it with an empty body, switches the outbound transform
\* to the handshake transform after that, and leaves the state at
\* CLIENT_CERTIFICATE; a failed one leaves the transform and the state.
C17_EndOfEarlyData ==
    /\ [](ssl.out_msg.type = "END_OF_EARLY_DATA"
              => ssl.early_data_status = "ACCEPTED")
    /\ [](ssl.state = "END_OF_EARLY_DATA"
              => /\ ssl.transform_out # "handshake"
                 /\ ssl.early_data_status = "ACCEPTED")
    /\ [](/\ ssl.state \in {"CLIENT_CERTIFICATE", "CLIENT_CERTIFICATE_VERIFY",
                            "CLIENT_FINISHED", "FLUSH_BUFFERS",
                            "HANDSHAKE_WRAPUP", "HANDSHAKE_OVER"}
           /\ ssl.early_data_status = "ACCEPTED"
              => ssl.out_msg = OutMsg("END_OF_EARLY_DATA", 0, TRUE))
    /\ [][(ssl.state = "SERVER_FINISHED" /\ ret' = OK)
             => (ssl'.state = "END_OF_EARLY_DATA"
                    <=> ssl.early_data_status = "ACCEPTED")]_vars
    /\ [][ssl.state = "END_OF_EARLY_DATA"
             => IF ret' = OK
                THEN /\ ssl'.out_msg = OutMsg("END_OF_EARLY_DATA", 0, TRUE)
                     /\ ssl'.calls = ssl.calls \o
                            <<"start_handshake_msg", "add_hs_hdr_to_checksum",
                              "finish_handshake_msg", "set_outbound_transform">>
                     /\ ssl'.transform_out = "handshake"
                     /\ ssl'.state = "CLIENT_CERTIFICATE"
                ELSE /\ ssl'.transform_out = ssl.transform_out
                     /\ ~ssl'.out_msg.finished
                     /\ ssl'.state = "END_OF_EARLY_DATA"]_vars

\* The EndOfEarlyData message was written and the client is about to write
\* its certificate under the handshake transform.
C17_EndOfEarlyDataWritten ==
    /\ ssl.state = "CLIENT_CERTIFICATE"
    /\ ret = OK
    /\ ssl.early_data_status = "ACCEPTED"
    /\ ssl.out_msg = OutMsg("END_OF_EARLY_DATA", 0, TRUE)
    /\ ssl.transform_out = "handshake"
    /\ Len(ssl.calls) > 0
    /\ ssl.calls[Len(ssl.calls)] = "set_outbound_transform"

\* C18: a ClientHello that is written leaves early_data_status at REJECTED
\* when it carries the early_data extension and at NOT_SENT when it does
\* not; an EncryptedExtensions message that is processed leaves it at
\* ACCEPTED exactly when the message carries an early_data extension, and
\* one without early_data leaves the status as it was, REJECTED if it was
\* REJECTED.
C18_EarlyDataStatus ==
    /\ [][(ssl.state = "CLIENT_HELLO" /\ ret' = OK)
             => ssl'.early_data_status =
                    IF \E i \in 1..Len(ssl'.client_hello) :
                           ssl'.client_hello[i].type = "EARLY_DATA"
                    THEN "REJECTED" ELSE "NOT_SENT"]_vars
    /\ [](Callable("ENCRYPTED_EXTENSIONS")
             => /\ ssl.early_data_status \in {"REJECTED", "NOT_SENT"}
                /\ \A m \in EncryptedExtensionsMsgs : \A alpn_list \in AlpnLists :
                       LET step == mbedtls_ssl_tls13_handshake_client_step(
                                       ssl, conf,
                                       [StepInput(m, "none") EXCEPT
                                            !.alpn_list = alpn_list])
                           carried == \E i \in 1..Len(m.exts) :
                                          m.exts[i].type = "EARLY_DATA"
                       IN step.ret = OK
                              => /\ step.s.early_data_status = "ACCEPTED"
                                        <=> carried
                                 /\ ~carried => step.s.early_data_status
                                                    = ssl.early_data_status)
    /\ [][(/\ ssl.state = "ENCRYPTED_EXTENSIONS"
           /\ ret' = OK
           /\ ssl.early_data_status = "REJECTED"
           /\ "EARLY_DATA" \notin ssl'.received_extensions)
             => ssl'.early_data_status = "REJECTED"]_vars

\* The early data that the ClientHello offered was accepted by an
\* EncryptedExtensions message with the early_data extension.
C18_OfferedThenAccepted ==
    /\ in_msg.type = "encrypted_extensions"
    /\ ret = OK
    /\ "EARLY_DATA" \in ssl.sent_extensions
    /\ "EARLY_DATA" \in ssl.received_extensions
    /\ ssl.early_data_status = "ACCEPTED"

\* C19: a CLIENT_HELLO step writes the early_data extension only if the
\* configuration enables a PSK key exchange mode, the handshake resumes a
\* session of TLS 1.3 whose ticket has the flag ALLOW_EARLY_DATA, the
\* ciphersuite of that session is one the client offers, and the
\* configuration enables early data.
C19_EarlyDataWrittenOnlyIf ==
    [][(/\ ssl.state = "CLIENT_HELLO"
        /\ \E i \in 1..Len(ssl'.client_hello) :
               ssl'.client_hello[i].type = "EARLY_DATA")
          => /\ conf.tls13_kex_modes \cap KEX_PSK_ALL # {}
             /\ ssl.resume
             /\ ssl.ticket # "NULL"
             /\ ssl.session_tls_version = MBEDTLS_SSL_VERSION_TLS1_3
             /\ "ALLOW_EARLY_DATA" \in ssl.ticket_flags
             /\ ssl.ciphersuite \in OfferedCiphersuites
             /\ conf.early_data_enabled]_vars

\* A ClientHello was written without early_data for a session that permits
\* early data but has a ciphersuite the client does not offer.
C19_NotWrittenForOtherCiphersuite ==
    /\ ssl.state = "SERVER_HELLO"
    /\ ret = OK
    /\ hrr = NoMsg
    /\ conf.session.ciphersuite = 4867
    /\ conf.early_data_enabled
    /\ "ALLOW_EARLY_DATA" \in ssl.ticket_flags
    /\ "PRE_SHARED_KEY" \in ssl.sent_extensions
    /\ "EARLY_DATA" \notin ssl.sent_extensions

\* C20: a NEW_SESSION_TICKET step either processes the ticket, returns
\* RECEIVED_NEW_SESSION_TICKET and leaves the state at HANDSHAKE_OVER, or
\* fails, returns its error, neither 0 nor the signal, and leaves the state
\* at NEW_SESSION_TICKET; the signal is returned by no other step (the
\* export of the session is the caller's, not a step), and
\* after it the client is in HANDSHAKE_OVER and can be called again, so
\* that the ticket that follows is processed in the same way, as many
\* times as tickets arrive.
C20_TicketsOneAfterAnother ==
    /\ [][ssl.state = "NEW_SESSION_TICKET"
             => \/ /\ ret' = "RECEIVED_NEW_SESSION_TICKET"
                   /\ ssl'.state = "HANDSHAKE_OVER"
                   /\ in_msg'.type = "new_session_ticket"
                \/ /\ ret' \notin {OK, "RECEIVED_NEW_SESSION_TICKET"}
                   /\ ssl'.state = "NEW_SESSION_TICKET"]_vars
    /\ [][(/\ ssl.state # "NEW_SESSION_TICKET"
           /\ ssl'.state # "NEW_SESSION_TICKET"
           /\ ssl'.exported = ssl.exported)
             => ret' # "RECEIVED_NEW_SESSION_TICKET"]_vars
    /\ [](ret = "RECEIVED_NEW_SESSION_TICKET"
             => /\ ssl.state \in {"HANDSHAKE_OVER", "NEW_SESSION_TICKET"}
                /\ ssl.tickets_received >= 1
                /\ Callable(ssl.state))

\* A second ticket was processed after the first.
C20_SecondTicketProcessed ==
    /\ ssl.state = "HANDSHAKE_OVER"
    /\ ret = "RECEIVED_NEW_SESSION_TICKET"
    /\ ssl.tickets_received = 2
    /\ in_msg.type = "new_session_ticket"
    /\ ssl.ticket = "t4"
    /\ ssl.ticket_lifetime = 300

\* C21: whatever ticket the session holds, a NewSessionTicket that is
\* processed leaves in the session the ticket of the message, with its
\* length, its lifetime and its ticket_age_add, never more than it; and
\* processing the same message once more leaves the ticket, its length,
\* ticket_lifetime, ticket_age_add, ticket_flags and the resumption key as
\* the first processing left them.
C21_TicketReplaced ==
    Callable("NEW_SESSION_TICKET") =>
    \A m \in NewSessionTicketMsgs \cup LaterNewSessionTicketMsgs :
    \A now \in Times :
        LET fields(s) == <<s.ticket, s.ticket_len, s.ticket_lifetime,
                           s.ticket_age_add, s.ticket_flags, s.resumption_key,
                           s.resumption_key_len>>
            once == ssl_tls13_process_new_session_ticket(ssl, conf, m, now, "none")
            twice == ssl_tls13_process_new_session_ticket(
                         once.s, conf, m, now, "none")
        IN once.ret = OK
               => /\ once.s.ticket = m.ticket
                  /\ once.s.ticket_len = m.ticket_len
                  /\ once.s.ticket_lifetime = m.ticket_lifetime
                  /\ once.s.ticket_age_add = m.ticket_age_add
                  /\ once.s.resumption_key.ticket_nonce = m.ticket_nonce
                  /\ twice.ret = OK
                  /\ fields(twice.s) = fields(once.s)

\* Two tickets were processed in a row in a handshake that resumed none,
\* the second of them the ticket t2, which the server may also send first;
\* the session holds it once.
C21_SameTicketTwice ==
    /\ ssl.state = "HANDSHAKE_OVER"
    /\ ret = "RECEIVED_NEW_SESSION_TICKET"
    /\ ssl.tickets_received = 2
    /\ ssl.ticket = "t2"
    /\ ssl.ticket_len = 2
    /\ Len(SelectSeq(trail, LAMBDA st : st = "NEW_SESSION_TICKET")) = 2
    /\ conf.session.ticket = "NULL"

\* C22: a NewSessionTicket that is processed leaves the session not
\* exported, with ticket flags that are the tls13_kex_modes of the
\* configuration and, exactly when the message carries an early_data
\* extension, ALLOW_EARLY_DATA, whatever the flags were; a message whose
\* early_data extension has a length other than 4 makes the step fail with
\* DECODE_ERROR and the decode_error alert.
C22_TicketFlags ==
    Callable("NEW_SESSION_TICKET") =>
    \A m \in NewSessionTicketMsgs \cup LaterNewSessionTicketMsgs :
    \A now \in Times :
        LET step == mbedtls_ssl_tls13_handshake_client_step(
                        ssl, conf, [StepInput(m, "none") EXCEPT !.now = now])
            carried == \E i \in 1..Len(m.exts) : m.exts[i].type = "EARLY_DATA"
        IN /\ step.ret = "RECEIVED_NEW_SESSION_TICKET"
                  => /\ step.s.exported = 0
                     /\ step.s.ticket_flags =
                            conf.tls13_kex_modes
                            \cup (IF carried THEN {"ALLOW_EARLY_DATA"} ELSE {})
                     /\ \A i \in 1..Len(m.exts) :
                            m.exts[i].type = "EARLY_DATA" => m.exts[i].val = 4
           /\ (/\ m.cut = "none"
               /\ m.exts # <<>>
               /\ m.exts[1].type = "EARLY_DATA"
               /\ m.exts[1].val # 4)
                  => /\ step.ret = "DECODE_ERROR"
                     /\ step.s.alert = "DECODE_ERROR"
                     /\ step.s.state = "NEW_SESSION_TICKET"

\* A ticket without early_data was processed, as the second ticket, in a
\* handshake that resumed a session whose ticket allowed early data: the
\* flag did not survive and the session is not exported.
C22_EarlyDataFlagDropped ==
    /\ ssl.state = "HANDSHAKE_OVER"
    /\ ret = "RECEIVED_NEW_SESSION_TICKET"
    /\ in_msg.type = "new_session_ticket"
    /\ "ALLOW_EARLY_DATA" \in conf.session.flags
    /\ conf.tls13_kex_modes = KEX_PSK
    /\ ssl.ticket_flags = KEX_PSK
    /\ ssl.exported = 0
    /\ ssl.tickets_received = 2

\* C23, as the specification states it: the obfuscated_ticket_age of the
\* identity of the ticket is ((max(age, 1) - 1) * 1000 + ticket_age_add)
\* mod 2^32, where age = now - ticket_received, whatever the clock reads.
C23_AgeAsStated ==
    [][(/\ ssl.state = "CLIENT_HELLO"
        /\ ssl_tls13_has_configured_ticket(ssl, conf)
        /\ ssl'.psk_identities # <<>>)
          => LET age == clock' - ssl.ticket_received IN
             /\ ssl'.psk_identities[1].identity = ssl.ticket
             /\ ssl'.psk_identities[1].obfuscated_ticket_age =
                    U32Add(U32Mul(ToU32((IF age > 1 THEN age ELSE 1) - 1), 1000),
                           ssl.ticket_age_add)]_vars

\* C23, amended: the obfuscated_ticket_age of the identity of the ticket
\* is ticket_age_add when now = ticket_received, and otherwise
\* ((age - 1) * 1000 + ticket_age_add) mod 2^32 with
\* age = now - ticket_received, also for a clock that reads earlier than
\* ticket_received, whose age of -n seconds counts as 2^32 - n.
C23_AgeOfTicket ==
    [][(/\ ssl.state = "CLIENT_HELLO"
        /\ ssl_tls13_has_configured_ticket(ssl, conf)
        /\ ssl'.psk_identities # <<>>)
          => LET age == clock' - ssl.ticket_received IN
             /\ ssl'.psk_identities[1].identity = ssl.ticket
             /\ ssl'.psk_identities[1].obfuscated_ticket_age =
                    IF age = 0 THEN ssl.ticket_age_add
                    ELSE U32Add(U32Mul(ToU32(age - 1), 1000),
                                ssl.ticket_age_add)]_vars

\* The ticket was offered by a client whose clock read one second less
\* than when the ticket was received: the age written is that of
\* 2^32 - 2 seconds, ticket_age_add - 2000.
C23_ClockBeforeTicket ==
    /\ ssl.state = "SERVER_HELLO"
    /\ ret = OK
    /\ clock = ssl.ticket_received - 1
    /\ ssl.psk_identities # <<>>
    /\ ssl.psk_identities[1].identity = ssl.ticket
    /\ ssl.ticket_age_add = ToU32(7)
    /\ ssl.psk_identities[1].obfuscated_ticket_age = U32(65535, 63543)

\* C24: in a ClientHello written with pre_shared_key, the room the
\* identities phase left for the binders is 2 + the sum over the
\* identities of 1 + the length of the hash of their PSK (that of the
\* ciphersuite the session holds at that time for the ticket, 32 for the
\* static PSK), and
\* the binders phase wrote as many bytes: 2 for the length of the list and
\* 1 + its length for each binder, one binder for each identity.
C24_BinderRegion ==
    (/\ ssl.state = "SERVER_HELLO"
     /\ ret = OK
     /\ "PRE_SHARED_KEY" \in ssl.sent_extensions)
        => LET n == Len(ssl.psk_identities)
               hash_len(i) == IF ssl.psk_identities[i].identity = "psk_identity"
                              THEN 32
                              ELSE IF ssl.ciphersuite = 4866
                              THEN 48 ELSE 32
               written(i) == 1 + ssl.psk_binders[i].len
           IN /\ n \in {1, 2}
              /\ Len(ssl.psk_binders) = n
              /\ ssl.binders_len =
                     2 + hash_len(1) + 1 + (IF n = 2 THEN hash_len(2) + 1 ELSE 0)
              /\ ssl.binders_len =
                     2 + written(1) + (IF n = 2 THEN written(2) ELSE 0)
              /\ ssl.client_hello[Len(ssl.client_hello)].val.binders
                     = ssl.psk_binders

\* A ticket of a SHA-384 ciphersuite and the static PSK were offered: 84
\* bytes for the binders.
C24_TwoBindersOfTwoHashes ==
    /\ ssl.state = "SERVER_HELLO"
    /\ ret = OK
    /\ "PRE_SHARED_KEY" \in ssl.sent_extensions
    /\ Len(ssl.psk_binders) = 2
    /\ ssl.psk_binders[1].len = 48
    /\ ssl.psk_binders[2].len = 32
    /\ ssl.binders_len = 84

\* C25: in a ClientHello written with pre_shared_key the ticket, when it
\* is offered, is the first identity and the static PSK, when there is
\* one, the last; the i-th binder is that of the PSK of the i-th identity:
\* of the resumption key with the resumption context for the ticket, of
\* the PSK of the configuration with the external context, SHA-256 and an
\* obfuscated age of 0 for the static PSK.
C25_BindersInOrderOfIdentities ==
    (/\ ssl.state = "SERVER_HELLO"
     /\ ret = OK
     /\ "PRE_SHARED_KEY" \in ssl.sent_extensions)
        => LET ids == ssl.psk_identities
               binders == ssl.client_hello[Len(ssl.client_hello)].val.binders
               ticket == ssl_tls13_has_configured_ticket(ssl, conf)
               static == mbedtls_ssl_conf_has_static_psk(conf)
           IN /\ ssl.client_hello[Len(ssl.client_hello)].val.identities = ids
              /\ Len(binders) = Len(ids)
              /\ Len(ids) = (IF ticket THEN 1 ELSE 0) + (IF static THEN 1 ELSE 0)
              /\ ticket => ids[1].identity = ssl.ticket
              /\ static => ids[Len(ids)].identity = "psk_identity"
              /\ \A i \in 1..Len(ids) :
                    IF ids[i].identity = "psk_identity"
                    THEN /\ ids[i].obfuscated_ticket_age = ToU32(0)
                         /\ binders[i] = PskBinder("EXTERNAL", "psk", 32)
                    ELSE /\ binders[i].psk_type = "RESUMPTION"
                         /\ binders[i].psk = "resumption_key"

\* The ticket t1 and the static PSK were offered, in this order, each with
\* its binder.
C25_TicketThenStaticPsk ==
    /\ ssl.state = "SERVER_HELLO"
    /\ ret = OK
    /\ "PRE_SHARED_KEY" \in ssl.sent_extensions
    /\ Len(ssl.psk_identities) = 2
    /\ ssl.psk_identities[1].identity = "t1"
    /\ ssl.psk_identities[2].identity = "psk_identity"
    /\ ssl.psk_binders[1].psk_type = "RESUMPTION"
    /\ ssl.psk_binders[2].psk_type = "EXTERNAL"

C27_KeyShareWritten ==
    [][LET shares == SelectSeq(ssl'.client_hello,
                               LAMBDA e : e.type = "KEY_SHARE")
           written == "KEY_SHARE" \in ssl'.sent_extensions
       IN /\ written
               => /\ ssl'.offered_group_id # 0
                  /\ Len(shares) = 1
                  /\ ssl'.offered_group_id # shares[1].val
                        => /\ ssl'.hello_retry_request_count = 1 \/ ret' # OK
                           /\ ssl'.state \in {"SERVER_HELLO", "CLIENT_HELLO",
                                               "CLIENT_CCS_BEFORE_2ND_CLIENT_HELLO"}
                           /\ in_msg'.type = "server_hello" \/ hrr # NoMsg
          /\ (ssl.state = "CLIENT_HELLO" /\ ret' = OK)
               => /\ written <=> mbedtls_ssl_conf_tls13_some_ephemeral_enabled(conf)
                  /\ written
                       => /\ shares[1].val = ssl'.offered_group_id
                          /\ ssl'.offered_group_id =
                                 IF hrr # NoMsg /\ hrr.key_shares # <<>>
                                 THEN hrr.key_shares[1].val
                                 ELSE FirstEcdheGroup(conf.group_list)
                          /\ CurveSupported(ssl'.offered_group_id)
                          /\ mbedtls_ssl_tls13_named_group_is_ecdhe(
                                 ssl'.offered_group_id)
                          /\ \E i \in 1..Len(conf.group_list) :
                                 conf.group_list[i] = ssl'.offered_group_id]_vars

\* The second ClientHello was written with a key share of x25519, the
\* group the HelloRetryRequest selected, the first having offered
\* secp256r1.
C27_GroupOfHelloRetryRequest ==
    /\ ssl.state = "SERVER_HELLO"
    /\ ret = OK
    /\ ssl.hello_retry_request_count = 1
    /\ hrr # NoMsg
    /\ hrr.key_shares = <<Ext("KEY_SHARE", 29)>>
    /\ conf.group_list = <<23, 29>>
    /\ "KEY_SHARE" \in ssl.sent_extensions
    /\ ssl.offered_group_id = 29

\* C28: a HelloRetryRequest that reaches the classifier of a client whose
\* configuration enables no mode with an ephemeral key fails with
\* ILLEGAL_PARAMETER and the illegal_parameter alert, and leaves
\* hello_retry_request_count at 0 and the state at SERVER_HELLO; such a
\* client never counts a HelloRetryRequest and writes no second
\* ClientHello.  A HelloRetryRequest after one that was counted fails with
\* UNEXPECTED_MESSAGE; and the classifier looks at the count first: given
\* a count of 1 and a configuration of the PSK mode alone it answers
\* UNEXPECTED_MESSAGE.
C28_HelloRetryRequestOfPskOnly ==
    [][/\ ~mbedtls_ssl_conf_tls13_some_ephemeral_enabled(conf)
            => /\ ssl'.hello_retry_request_count = 0
               /\ Cardinality({i \in 1..Len(trail') :
                                   trail'[i] = "CLIENT_HELLO"}) <= 1
       /\ (/\ ssl.state = "SERVER_HELLO"
           /\ in_msg'.type = "server_hello"
           /\ in_msg'.rnd = "hrr_magic"
           /\ in_msg'.sv
           /\ in_msg'.hdr # "truncated")
            => /\ ssl.hello_retry_request_count > 0
                    => /\ ret' = "UNEXPECTED_MESSAGE"
                       /\ ssl'.alert = "UNEXPECTED_MESSAGE"
                       /\ ssl'.hello_retry_request_count
                              = ssl.hello_retry_request_count
               /\ (/\ ssl.hello_retry_request_count = 0
                   /\ ~mbedtls_ssl_conf_tls13_some_ephemeral_enabled(conf))
                    => /\ ret' = "ILLEGAL_PARAMETER"
                       /\ ssl'.alert = "ILLEGAL_PARAMETER"
                       /\ ssl'.state = "SERVER_HELLO"
               /\ LET s == [ssl EXCEPT !.hello_retry_request_count = 1]
                      c == [conf EXCEPT !.tls13_kex_modes = {"PSK"}]
                  IN PreprocessHrr(s, c)
                         = R(PendFatalAlert(s, "UNEXPECTED_MESSAGE"),
                             "UNEXPECTED_MESSAGE")]_vars

\* A client of the PSK modes without ephemeral key has refused the
\* HelloRetryRequest that answered its ClientHello.
C28_RefusedByPskOnlyClient ==
    /\ ssl.state = "SERVER_HELLO"
    /\ ret = "ILLEGAL_PARAMETER"
    /\ ssl.alert = "ILLEGAL_PARAMETER"
    /\ conf.tls13_kex_modes = {"PSK"}
    /\ in_msg.type = "server_hello"
    /\ in_msg.rnd = "hrr_magic"
    /\ in_msg.hdr = "ok"
    /\ in_msg.sv
    /\ ssl.hello_retry_request_count = 0
    /\ trail = <<"HELLO_REQUEST", "CLIENT_HELLO", "SERVER_HELLO">>

\* C29: the parser of the key_share of a HelloRetryRequest answers
\* ILLEGAL_PARAMETER, with the illegal_parameter alert and
\* offered_group_id as it was, for a selected_group that is no entry of
\* group_list, that the provider does not implement, or that is the group
\* offered already, and stores any other as offered_group_id.  So a
\* HelloRetryRequest with a key_share of such a group is not accepted and
\* leaves offered_group_id as it was, and offered_group_id changes on a
\* HelloRetryRequest only to the group of its key_share, which is the
\* group of one that is accepted.
C29_HrrKeyShare ==
    [][(/\ ssl.state = "SERVER_HELLO"
        /\ in_msg'.type = "server_hello"
        /\ in_msg'.rnd = "hrr_magic"
        /\ in_msg'.sv)
         => LET offered == ssl.offered_group_id
                refused(g) == \/ ~\E i \in 1..Len(conf.group_list) :
                                     conf.group_list[i] = g
                              \/ ~CurveSupported(g)
                              \/ g = offered
                shares == in_msg'.key_shares
            IN /\ \A g \in {23, 24, 29, 256} :
                     ssl_tls13_parse_hrr_key_share_ext(ssl, conf, g)
                       = IF refused(g)
                         THEN R(PendFatalAlert(ssl, "ILLEGAL_PARAMETER"),
                                "ILLEGAL_PARAMETER")
                         ELSE R([ssl EXCEPT !.offered_group_id = g], OK)
               /\ shares = <<>> => ssl'.offered_group_id = offered
               /\ shares # <<>>
                    => IF refused(shares[1].val)
                       THEN /\ ret' # OK
                            /\ ssl'.offered_group_id = offered
                            /\ hrr' = hrr
                       ELSE /\ ssl'.offered_group_id \in {offered, shares[1].val}
                            /\ ret' = OK
                                  => ssl'.offered_group_id = shares[1].val]_vars

\* A HelloRetryRequest whose key_share names secp256r1, the group the
\* ClientHello offered, was refused with illegal_parameter.
C29_GroupOfferedAlready ==
    /\ ssl.state = "SERVER_HELLO"
    /\ ret = "ILLEGAL_PARAMETER"
    /\ ssl.alert = "ILLEGAL_PARAMETER"
    /\ in_msg.type = "server_hello"
    /\ in_msg.rnd = "hrr_magic"
    /\ in_msg.hdr = "ok"
    /\ in_msg.sv
    /\ in_msg.cipher_suite = 4865
    /\ in_msg.echo = SessionIdEcho(ssl.id)
    /\ in_msg.key_shares = <<Ext("KEY_SHARE", 23)>>
    /\ ssl.offered_group_id = 23
    /\ ssl.hello_retry_request_count = 1

\* C30: a step in CERTIFICATE_REQUEST that succeeds leaves the state at
\* SERVER_CERTIFICATE, whether the record read is a CertificateRequest or
\* not, and client_auth true exactly when it is one; a step that fails
\* leaves the state and client_auth false.  client_auth is set only by a
\* message that carried signature_algorithms and had no byte left over:
\* a CertificateRequest of extensions the message may carry, but without
\* signature_algorithms or with bytes left over, fails with DECODE_ERROR
\* and the decode_error alert.
C30_CertificateRequest ==
    [][ssl.state = "CERTIFICATE_REQUEST"
         => /\ ~ssl.client_auth
            /\ IF ret' = OK
               THEN /\ ssl'.state = "SERVER_CERTIFICATE"
                    /\ ssl'.client_auth
                          <=> in_msg'.type = "certificate_request"
               ELSE /\ ssl'.state = "CERTIFICATE_REQUEST"
                    /\ ~ssl'.client_auth
            /\ ssl'.client_auth
                 => /\ "SIG_ALG" \in ssl'.received_extensions
                    /\ in_msg'.hdr = "ok"
            /\ \A m \in CertificateRequestMsgs :
                  (/\ m.hdr # "truncated"
                   /\ \A i \in 1..Len(m.exts) :
                          /\ m.exts[i].type \in ALLOWED_EXTS_OF_CR
                          /\ m.exts[i].type = "SIG_ALG" => m.exts[i].val = 1
                   /\ \/ m.hdr = "misaligned"
                      \/ \A i \in 1..Len(m.exts) : m.exts[i].type # "SIG_ALG")
                    => LET r == ssl_tls13_process_certificate_request(
                                    ssl, m, "none")
                       IN /\ r.ret = "DECODE_ERROR"
                          /\ r.s.alert = "DECODE_ERROR"
                          /\ ~r.s.client_auth
                          /\ r.s.state = "CERTIFICATE_REQUEST"]_vars

\* A CertificateRequest without signature_algorithms was read and
\* refused.
C30_NoSignatureAlgorithms ==
    /\ ssl.state = "CERTIFICATE_REQUEST"
    /\ ret = "DECODE_ERROR"
    /\ ssl.alert = "DECODE_ERROR"
    /\ in_msg.type = "certificate_request"
    /\ in_msg.hdr = "ok"
    /\ "SIG_ALG" \notin ssl.received_extensions
    /\ ~ssl.client_auth

\* C31: a step in CLIENT_CERTIFICATE that succeeds writes a Certificate
\* exactly when client_auth is set, and leaves the state at
\* CLIENT_CERTIFICATE_VERIFY when client_auth is set and the client has a
\* certificate of its own, at CLIENT_FINISHED otherwise; a
\* CertificateVerify is written only in a step that started in
\* CLIENT_CERTIFICATE_VERIFY, the Certificate being the message written
\* last before it.
C31_ClientCertificate ==
    [][/\ ssl.state = "CLIENT_CERTIFICATE"
            => /\ \A own_cert \in BOOLEAN :
                     LET r == ssl_tls13_write_client_certificate(
                                  ssl, conf, own_cert, "none")
                     IN /\ r.ret = OK
                        /\ r.s.state = IF ssl.client_auth /\ own_cert
                                       THEN "CLIENT_CERTIFICATE_VERIFY"
                                       ELSE "CLIENT_FINISHED"
                        /\ r.s.calls = IF ssl.client_auth
                                       THEN Append(ssl.calls, "write_certificate")
                                       ELSE ssl.calls
               /\ ret' = OK
                    => /\ ssl'.state \in {"CLIENT_CERTIFICATE_VERIFY",
                                          "CLIENT_FINISHED"}
                       /\ ssl'.state = "CLIENT_CERTIFICATE_VERIFY"
                             => ssl.client_auth
                       /\ ssl'.calls = IF ssl.client_auth
                                       THEN Append(ssl.calls, "write_certificate")
                                       ELSE ssl.calls
       /\ ssl'.calls # ssl.calls
          /\ ssl'.calls[Len(ssl'.calls)] = "write_certificate_verify"
            => /\ ssl.state = "CLIENT_CERTIFICATE_VERIFY"
               /\ ssl.client_auth
               /\ ssl.calls[Len(ssl.calls)] = "write_certificate"]_vars

\* The client, asked for a certificate and having one, wrote its
\* Certificate and then its CertificateVerify.
C31_CertificateThenVerify ==
    /\ ssl.state = "CLIENT_FINISHED"
    /\ ret = OK
    /\ ssl.client_auth
    /\ Len(ssl.calls) >= 2
    /\ ssl.calls[Len(ssl.calls)] = "write_certificate_verify"
    /\ ssl.calls[Len(ssl.calls) - 1] = "write_certificate"

\* C32: the step that accepts a HelloRetryRequest destroys the private key
\* of the first ClientHello, as its last call, and leaves the handle at
\* its initial value on leaving SERVER_HELLO; a ClientHello is written,
\* and generates a key, only when the handle holds none, so that there is
\* at most one key at any time; and when psa_destroy_key fails on a
\* HelloRetryRequest the step fails, the state stays SERVER_HELLO with the
\* handle as it was, and CLIENT_HELLO was entered once.
C32_KeyDestroyedOnHrr ==
    [][/\ (/\ ssl.state = "SERVER_HELLO"
           /\ ssl'.state \in {"CLIENT_HELLO",
                               "CLIENT_CCS_BEFORE_2ND_CLIENT_HELLO"})
            => /\ ret' = OK
               /\ ssl.ecdh_psa_privkey # 0
               /\ ssl'.ecdh_psa_privkey = 0
               /\ ssl'.calls[Len(ssl'.calls)] = "psa_destroy_key"
               /\ ssl'.hello_retry_request_count = 1
       /\ (ssl.state = "CLIENT_HELLO"
           /\ ssl'.ecdh_psa_privkey # ssl.ecdh_psa_privkey)
            => /\ ssl.ecdh_psa_privkey = 0
               /\ ssl'.calls[Len(ssl'.calls)] = "generate_ecdh_key"
       /\ (/\ ret' = OK
           /\ ssl'.state \in {"CLIENT_HELLO",
                               "CLIENT_CCS_BEFORE_2ND_CLIENT_HELLO"})
            => ssl'.ecdh_psa_privkey = 0
       /\ (/\ ret' = "PSA_DESTROY_KEY_FAILED"
           /\ in_msg'.rnd = "hrr_magic"
           /\ in_msg'.sv)
            => /\ ssl'.state = "SERVER_HELLO"
               /\ ssl'.ecdh_psa_privkey = ssl.ecdh_psa_privkey
               /\ ssl'.ecdh_psa_privkey # 0
               /\ Cardinality({i \in 1..Len(trail') :
                                   trail'[i] = "CLIENT_HELLO"}) = 1]_vars

\* A HelloRetryRequest was accepted: the key generated for secp256r1 was
\* destroyed and the client is to write its second ClientHello.
C32_KeyOfFirstClientHelloGone ==
    /\ ssl.state \in {"CLIENT_HELLO", "CLIENT_CCS_BEFORE_2ND_CLIENT_HELLO"}
    /\ ret = OK
    /\ ssl.hello_retry_request_count = 1
    /\ ssl.ecdh_psa_privkey = 0
    /\ ssl.offered_group_id = 29
    /\ Len(ssl.calls) >= 2
    /\ ssl.calls[1] = "generate_ecdh_key"
    /\ ssl.calls[Len(ssl.calls)] = "psa_destroy_key"

\* C33: when the step function is called as long as it may be and every
\* message arrives, the handshake comes to an end: the state is
\* HANDSHAKE_OVER, or the connection is handed to the TLS 1.2 client, or a
\* step has failed.  The state CLIENT_HELLO is entered twice at most.
C33_HandshakeEnds ==
    /\ <>(\/ ssl.state = "HANDSHAKE_OVER"
          \/ ssl.tls_version = MBEDTLS_SSL_VERSION_TLS1_2
          \/ ret \notin {OK, "RECEIVED_NEW_SESSION_TICKET"})
    /\ [](Cardinality({i \in 1..Len(trail) : trail[i] = "CLIENT_HELLO"}) <= 2)

\* A handshake with a HelloRetryRequest, and so two ClientHello, is over.
C33_OverAfterTwoClientHello ==
    /\ ssl.state = "HANDSHAKE_OVER"
    /\ ret = OK
    /\ ssl.hello_retry_request_count = 1
    /\ Cardinality({i \in 1..Len(trail) : trail[i] = "CLIENT_HELLO"}) = 2
    /\ trail[Len(trail)] = "HANDSHAKE_OVER"
    /\ ssl.tickets_received = 0

C35_EncryptedExtensions ==
    [][ssl.state = "ENCRYPTED_EXTENSIONS"
         => /\ ret' = OK => in_msg'.hdr = "ok"
            /\ ret' # OK
                 => /\ ssl'.state = "ENCRYPTED_EXTENSIONS"
                    /\ ssl'.early_data_status = ssl.early_data_status
            /\ \A hdr \in {"ok", "misaligned"}, alpn_list \in AlpnLists :
               \A exts \in {<<>>, <<Ext("EARLY_DATA", 0)>>,
                             <<Ext("EARLY_DATA", 1)>>,
                             <<Ext("SERVERNAME", 0), Ext("EARLY_DATA", 1)>>,
                             <<Ext("KEY_SHARE", 29), Ext("EARLY_DATA", 1)>>,
                             <<Ext("ALPN", 1), Ext("EARLY_DATA", 0)>>} :
                  LET defect == \/ hdr = "misaligned"
                                \/ \E i \in 1..Len(exts) :
                                       /\ exts[i].type = "EARLY_DATA"
                                       /\ exts[i].val # 0
                      sound == [i \in 1..Len(exts) |->
                                   IF exts[i].type = "EARLY_DATA"
                                   THEN Ext("EARLY_DATA", 0)
                                   ELSE exts[i]]
                      r == ssl_tls13_process_encrypted_extensions(
                               ssl, conf, alpn_list,
                               EncryptedExtensionsMsg(hdr, exts), "none")
                      r0 == ssl_tls13_process_encrypted_extensions(
                                ssl, conf, alpn_list,
                                EncryptedExtensionsMsg("ok", sound), "none")
                  IN /\ r.ret = OK => ~defect
                     /\ defect
                          => /\ r.ret # OK
                             /\ r.s.state = "ENCRYPTED_EXTENSIONS"
                             /\ r.s.early_data_status = ssl.early_data_status
                             /\ r0.ret = OK
                                  => /\ r.ret = "DECODE_ERROR"
                                     /\ r.s.alert = "DECODE_ERROR"]_vars

\* The client offered early data and the EncryptedExtensions it read had
\* bytes left over: the step failed and the early data are not accepted.
C35_BytesLeftOver ==
    /\ ssl.state = "ENCRYPTED_EXTENSIONS"
    /\ ret = "DECODE_ERROR"
    /\ ssl.alert = "DECODE_ERROR"
    /\ in_msg.type = "encrypted_extensions"
    /\ in_msg.hdr = "misaligned"
    /\ ssl.early_data_status = "REJECTED"

\* C36: a step that returns an error leaves ssl->state as it was (the
\* signal RECEIVED_NEW_SESSION_TICKET is not an error); and in a state
\* the switch of the step function has no case for, HANDSHAKE_OVER among
\* them, and the states of the certificates and of the ChangeCipherSpec
\* records in a build without them, the step returns BAD_INPUT_DATA and
\* changes nothing.
C36_StateKeptOnError ==
    [][/\ ret' \notin {OK, "RECEIVED_NEW_SESSION_TICKET"}
            => ssl'.state = ssl.state
       /\ \A st \in {"HANDSHAKE_OVER", "SERVER_KEY_EXCHANGE",
                      "SERVER_HELLO_DONE", "CLIENT_KEY_EXCHANGE",
                      "CLIENT_CHANGE_CIPHER_SPEC",
                      "SERVER_CHANGE_CIPHER_SPEC"}
                     \cup (IF conf.MBEDTLS_SSL_TLS1_3_KEY_EXCHANGE_MODE_EPHEMERAL_ENABLED
                           THEN {}
                           ELSE {"CERTIFICATE_REQUEST", "SERVER_CERTIFICATE",
                                 "CERTIFICATE_VERIFY",
                                 "CLIENT_CERTIFICATE_VERIFY"})
                     \cup (IF conf.MBEDTLS_SSL_TLS1_3_COMPATIBILITY_MODE
                           THEN {}
                           ELSE {"CLIENT_CCS_BEFORE_2ND_CLIENT_HELLO",
                                 "CLIENT_CCS_AFTER_SERVER_FINISHED"}) :
             \A fail \in {"none", "fetch_handshake_msg"} :
                LET s == [ssl EXCEPT !.state = st]
                IN mbedtls_ssl_tls13_handshake_client_step(
                       s, conf, StepInput(NoMsg, fail))
                   = R(s, "BAD_INPUT_DATA")
       /\ (ssl.state = "HANDSHAKE_OVER" /\ ret' # ret)
            => /\ ret' = "BAD_INPUT_DATA"
               /\ ssl' = ssl]_vars

\* The server Finished was verified and the application transform could
\* not be computed: the step failed and the state is still
\* SERVER_FINISHED.
C36_FailedInServerFinished ==
    /\ ssl.state = "SERVER_FINISHED"
    /\ ret = "COMPUTE_APPLICATION_TRANSFORM_FAILED"
    /\ ssl.calls[Len(ssl.calls)] = "process_finished_message"
    /\ trail[Len(trail)] = "SERVER_FINISHED"

C38_NoEarlyDataAfterHrr ==
    [][(/\ ssl.state = "CLIENT_HELLO"
        /\ ssl.hello_retry_request_count = 1
        /\ ret' = OK)
         => /\ \A i \in 1..Len(ssl'.client_hello) :
                   ssl'.client_hello[i].type # "EARLY_DATA"
            /\ "EARLY_DATA" \notin ssl'.sent_extensions
            /\ ssl'.early_data_status = "NOT_SENT"]_vars

C40_KeySchedule ==
    [][LET n(s, call) ==
               Cardinality({i \in 1..Len(s.calls) : s.calls[i] = call})
           last(s) == s.calls[Len(s.calls)]
           before(s) == s.calls[Len(s.calls) - 1]
       IN /\ n(ssl', "compute_handshake_transform")
               # n(ssl, "compute_handshake_transform")
                => /\ n(ssl, "compute_handshake_transform") = 0
                   /\ n(ssl', "compute_handshake_transform") = 1
                   /\ ssl.state = "SERVER_HELLO"
                   /\ in_msg'.type = "server_hello"
                   /\ in_msg'.rnd # "hrr_magic"
                   /\ in_msg'.sv
          /\ n(ssl', "compute_application_transform")
               # n(ssl, "compute_application_transform")
                => /\ n(ssl, "compute_application_transform") = 0
                   /\ n(ssl', "compute_application_transform") = 1
                   /\ ssl.state = "SERVER_FINISHED"
                   /\ last(ssl') = "compute_application_transform"
                   /\ before(ssl') = "process_finished_message"
                   /\ n(ssl, "compute_handshake_transform") = 1
          /\ n(ssl', "compute_resumption_master_secret")
               # n(ssl, "compute_resumption_master_secret")
                => /\ n(ssl, "compute_resumption_master_secret") = 0
                   /\ n(ssl', "compute_resumption_master_secret") = 1
                   /\ ssl.state = "CLIENT_FINISHED"
                   /\ last(ssl') = "compute_resumption_master_secret"
                   /\ before(ssl') = "write_finished_message"
                   /\ n(ssl, "compute_application_transform") = 1
          /\ (\E call \in {"write_certificate", "write_certificate_verify",
                            "write_finished_message"} :
                  n(ssl', call) # n(ssl, call))
                => /\ ssl'.transform_out = "handshake"
                   /\ ssl.state # "CLIENT_CERTIFICATE"
                        => ssl.transform_out = "handshake"
          /\ (ssl.state = "CLIENT_CERTIFICATE" /\ ssl' # ssl)
                => ssl'.transform_out = "handshake"
          /\ ssl'.state = "HANDSHAKE_OVER"
                => SelectSeq(ssl'.calls,
                             LAMBDA call :
                                 call \in {"compute_handshake_transform",
                                           "compute_application_transform",
                                           "compute_resumption_master_secret"})
                   = <<"compute_handshake_transform",
                       "compute_application_transform",
                       "compute_resumption_master_secret">>]_vars

\* A handshake with a HelloRetryRequest and a client certificate is over:
\* the transforms and the secret were computed once each, around the
\* messages of the client.
C40_OverWithEachComputedOnce ==
    /\ ssl.state = "HANDSHAKE_OVER"
    /\ ret = OK
    /\ ssl.hello_retry_request_count = 1
    /\ SelectSeq(ssl.calls,
                 LAMBDA call : call \in {"compute_handshake_transform",
                                         "compute_application_transform",
                                         "write_certificate",
                                         "write_finished_message",
                                         "compute_resumption_master_secret"})
         = <<"compute_handshake_transform", "compute_application_transform",
             "write_certificate", "write_finished_message",
             "compute_resumption_master_secret">>

====
